---- MODULE Spec2Model ----
(***************************************************************************)
(* A model of jacobschulman/ski-run-scraper: the scrape-eligibility        *)
(* decision (ski-scraper.js), the snapshot persistence layer, the          *)
(* relational ingest, the grooming statistics (ski-scraper.js and          *)
(* generate-trail-data.js) and the lift operating window                   *)
(* (lift-scraper.js).                                                      *)
(*                                                                         *)
(* Conventions.  An instant (new Date()) is a number of minutes since      *)
(* 2024-01-01T00:00Z.  A date string 'YYYY-MM-DD' is the number            *)
(* YYYY*10000 + MM*100 + DD: the strings have a fixed width, so their      *)
(* lexicographic order (localeCompare, Array.sort) is the order of these   *)
(* numbers.  An IANA time zone is its offset from UTC in hours.  A         *)
(* property that may be undefined is a sequence, <<>> when undefined.      *)
(* A string 'MM-DD' or 'HH:mm' is the pair of its two numbers.             *)
(***************************************************************************)
EXTENDS Integers, Sequences, FiniteSets, TLC

VARIABLES
    now,             \* the wall clock: minutes since 2024-01-01T00:00Z
    config,          \* config.json: schedule
    RESORTS,         \* config.json: resorts by key
    files,           \* data/{resort}/{kind}/{date}.json: path -> content
    snowLatest,      \* data/{resort}/snow/latest.json: resort -> content
    latestJson,      \* data/latest.json
    latestSnowJson,  \* data/latest-snow.json
    indexJson,       \* data/index.json
    dbResorts,       \* table resorts: key -> id
    terrain_status,  \* table terrain_status: a set of rows
    snow_conditions, \* table snow_conditions: a set of rows
    pc,              \* where main() of ski-scraper.js is
    resortsToCheck,  \* main: the resorts still to examine
    scrapedData,     \* main: the results pushed so far
    scrapedCount,    \* main
    skippedCount,    \* main
    runLog,          \* what the latest step of main did (status, writes, reason)
    seasonCheck,     \* the latest isResortInSeason evaluation (both copies)
    records,         \* the rows handed to the statistics functions
    processTz,       \* the time zone of the node process
    trailStats,      \* the latest statistics computed from records
    lifts,           \* the lifts returned by the latest lift extraction
    liftWindow,      \* the latest getLiftOperatingWindow result
    poller,          \* main() of lift-scraper.js: where it is, and its locals
    dbHandle,        \* the shared database handle and the callbacks it owes
    trailPass,       \* a trail generation pass: its queries, timer and promise
    page             \* the report page (data/resort.js): its globals and fetches

vars == <<now, config, RESORTS, files, snowLatest, latestJson, latestSnowJson,
          indexJson, dbResorts, terrain_status, snow_conditions, pc,
          resortsToCheck, scrapedData, scrapedCount, skippedCount, runLog,
          seasonCheck, records, processTz, trailStats, lifts, liftWindow, poller,
          dbHandle, trailPass, page>>

schedVars == <<files, snowLatest, latestJson, latestSnowJson, indexJson, pc,
               resortsToCheck, scrapedData, scrapedCount, skippedCount, runLog>>
dbVars == <<dbResorts, terrain_status, snow_conditions>>
statVars == <<records, processTz, trailStats>>
liftVars == <<lifts, liftWindow, poller>>
asyncVars == <<dbHandle, trailPass, page>>

(***************************************************************************)
(* Bounds of the model.                                                    *)
(***************************************************************************)
\* hours the clock may advance in the scheduling specification
MaxHours == 3
\* days the clock may advance in the season specification
MaxSeasonDays == 400
\* days the clock may advance in the relational specification
MaxDbDays == 1
\* rows handed to the statistics functions
MaxRows == 5
\* lifts in an extraction
MaxLifts == 2
\* lines in the lift logs after which the poller is no longer run
MaxLogLines == 2
\* days the poll specification runs over
MaxPollDays == 1

(***************************************************************************)
(* The calendar (what Date and date-fns-tz compute).                       *)
(***************************************************************************)
\* the epoch 2024-01-01, a Monday (getDay() = 1)
Epoch == [year |-> 2024, weekday |-> 1]
MinutesPerDay == 24 * 60

IsLeap(y) == (y % 4 = 0 /\ y % 100 # 0) \/ y % 400 = 0

DaysInYear(y) == IF IsLeap(y) THEN 366 ELSE 365

DaysInMonth(y, m) ==
    IF m = 2 THEN (IF IsLeap(y) THEN 29 ELSE 28)
    ELSE IF m \in {4, 6, 9, 11} THEN 30 ELSE 31

RECURSIVE DaysBeforeYear(_)
DaysBeforeYear(y) ==
    IF y <= Epoch.year THEN 0 ELSE DaysBeforeYear(y - 1) + DaysInYear(y - 1)

RECURSIVE DaysBeforeMonth(_, _)
DaysBeforeMonth(y, m) ==
    IF m <= 1 THEN 0 ELSE DaysBeforeMonth(y, m - 1) + DaysInMonth(y, m - 1)

\* new Date(y, m - 1, d) as a day number; a day past the end of the month
\* rolls over into the next month, as Date does
DayNumber(y, m, d) == DaysBeforeYear(y) + DaysBeforeMonth(y, m) + d - 1

RECURSIVE YearOfDay(_, _)
YearOfDay(n, y) ==
    IF n < DaysInYear(y) THEN <<y, n>> ELSE YearOfDay(n - DaysInYear(y), y + 1)

RECURSIVE MonthOfDay(_, _, _)
MonthOfDay(y, n, m) ==
    IF n < DaysInMonth(y, m) THEN <<m, n + 1>>
    ELSE MonthOfDay(y, n - DaysInMonth(y, m), m + 1)

\* format(..., 'yyyy-MM-dd') of a day number
FormatDate(n) ==
    LET yn == YearOfDay(n, Epoch.year)
        md == MonthOfDay(yn[1], yn[2], 1)
    IN  yn[1] * 10000 + md[1] * 100 + md[2]

\* localDate.split('-').map(Number)
SplitDate(s) == <<s \div 10000, (s \div 100) % 100, s % 100>>

\* the day number of a date string
DayOfDate(s) == DayNumber(SplitDate(s)[1], SplitDate(s)[2], SplitDate(s)[3])

\* the minutes since the epoch shown by a clock of the zone
ZonedMinutes(timezone) == now + timezone * 60

getTodayDate == FormatDate(now \div MinutesPerDay)

getResortLocalDate(timezone) == FormatDate(ZonedMinutes(timezone) \div MinutesPerDay)

getResortLocalHour(timezone) == (ZonedMinutes(timezone) % MinutesPerDay) \div 60

(***************************************************************************)
(* Season and scheduling policy, eligibility (ski-scraper.js).             *)
(***************************************************************************)
seasonStartOf(resort) ==
    IF resort.seasonStart # <<>> THEN resort.seasonStart ELSE config.defaultSeasonStart

seasonEndOf(resort) ==
    IF resort.seasonEnd # <<>> THEN resort.seasonEnd ELSE config.defaultSeasonEnd

\* a mutant: the pivot on the start month is strict
isResortInSeason_StrictPivot(resort) ==
    LET cur == SplitDate(getResortLocalDate(resort.timezone))
        start == seasonStartOf(resort)
        end == seasonEndOf(resort)
        seasonStartYear == IF cur[2] > start[1] THEN cur[1] ELSE cur[1] - 1
        seasonEndYear == seasonStartYear + 1
        currentDate == DayNumber(cur[1], cur[2], cur[3])
    IN  /\ currentDate >= DayNumber(seasonStartYear, start[1], start[2])
        /\ currentDate < DayNumber(seasonEndYear, end[1], end[2])

isResortInSeason(resort) ==
    LET cur == SplitDate(getResortLocalDate(resort.timezone))
        start == seasonStartOf(resort)
        end == seasonEndOf(resort)
        seasonStartYear == IF cur[2] >= start[1] THEN cur[1] ELSE cur[1] - 1
        seasonEndYear == IF cur[2] >= start[1] THEN cur[1] + 1 ELSE cur[1]
        seasonStartDate == DayNumber(seasonStartYear, start[1], start[2])
        seasonEndDate == DayNumber(seasonEndYear, end[1], end[2])
        currentDate == DayNumber(cur[1], cur[2], cur[3])
    IN  currentDate >= seasonStartDate /\ currentDate < seasonEndDate

\* the copy in lift-scraper.js
liftIsResortInSeason(resort) ==
    LET cur == SplitDate(getResortLocalDate(resort.timezone))
        start == seasonStartOf(resort)
        end == seasonEndOf(resort)
        seasonStartYear == IF cur[2] >= start[1] THEN cur[1] ELSE cur[1] - 1
        seasonEndYear == IF cur[2] >= start[1] THEN cur[1] + 1 ELSE cur[1]
        seasonStartDate == DayNumber(seasonStartYear, start[1], start[2])
        seasonEndDate == DayNumber(seasonEndYear, end[1], end[2])
        currentDate == DayNumber(cur[1], cur[2], cur[3])
    IN  currentDate >= seasonStartDate /\ currentDate < seasonEndDate

\* path.join('data', resort.key, dataType, `${date}.json`)
SnapshotPath(resortKey, dataType, date) == <<resortKey, dataType, date>>

\* a mutant: a snapshot of either kind counts for both
hasBeenScrapedToday_AnyKind(resortKey, dataType) ==
    \E kind \in {"terrain", "snow"} :
        SnapshotPath(resortKey, kind, getResortLocalDate(RESORTS[resortKey].timezone))
            \in DOMAIN files

hasBeenScrapedToday(resortKey, dataType) ==
    SnapshotPath(resortKey, dataType, getResortLocalDate(RESORTS[resortKey].timezone))
        \in DOMAIN files

targetHourOf(resort) ==
    IF resort.targetHour # <<>> THEN resort.targetHour[1] ELSE config.targetHour

isInScrapingWindow(resortKey) ==
    LET resort == RESORTS[resortKey]
        currentHour == getResortLocalHour(resort.timezone)
        targetHour == targetHourOf(resort)
    IN  currentHour >= targetHour /\ currentHour < targetHour + config.scrapingWindowHours

\* a mutant: eligibility is gated by the scraping window
shouldScrapeResort_Windowed(resortKey, dataType) ==
    LET resort == RESORTS[resortKey]
    IN  /\ isResortInSeason(resort)
        /\ (IF dataType = "terrain" THEN resort.terrainUrl ELSE resort.snowReportUrl)
        /\ ~hasBeenScrapedToday(resortKey, dataType)
        /\ isInScrapingWindow(resortKey)

shouldScrapeResort(resortKey, dataType) ==
    LET resort == RESORTS[resortKey]
        currentHour == getResortLocalHour(resort.timezone)
        targetHour == targetHourOf(resort)
        hasBeenScraped == hasBeenScrapedToday(resortKey, dataType)
        inSeason == isResortInSeason(resort)
        hasUrl == IF dataType = "terrain" THEN resort.terrainUrl ELSE resort.snowReportUrl
        notScraped == ~hasBeenScraped
        isPastTargetHour == currentHour >= targetHour
    IN  inSeason /\ hasUrl /\ notScraped /\ isPastTargetHour

getResortStatus(resortKey) ==
    [resortKey |-> resortKey,
     localDate |-> getResortLocalDate(RESORTS[resortKey].timezone),
     inSeason |-> isResortInSeason(RESORTS[resortKey]),
     inWindow |-> isInScrapingWindow(resortKey),
     terrainScraped |-> hasBeenScrapedToday(resortKey, "terrain"),
     snowScraped |-> hasBeenScrapedToday(resortKey, "snow"),
     currentHour |-> getResortLocalHour(RESORTS[resortKey].timezone),
     targetHour |-> targetHourOf(RESORTS[resortKey]),
     windowHours |-> config.scrapingWindowHours,
     shouldScrapeTerrain |-> shouldScrapeResort(resortKey, "terrain"),
     shouldScrapeSnow |-> shouldScrapeResort(resortKey, "snow")]

(***************************************************************************)
(* The relational store (database.js, not among the sources: modelled from *)
(* the schema of DATABASE.md and the contract of the specification).       *)
(* A row holds the data columns; the surrogate id and created_at are left  *)
(* out.                                                                    *)
(***************************************************************************)
Null == "null"

\* a || b on a property that may be undefined
OrElse(opt, fallback) == IF opt # <<>> THEN opt[1] ELSE fallback

\* get-or-create by the unique key; never updates an existing row
getOrCreateResort(table, key) ==
    IF key \in DOMAIN table THEN table
    ELSE (key :> Cardinality(DOMAIN table) + 1) @@ table

\* every trail and lift of every grooming area, in the order of the payload
RECURSIVE FlattenAreas(_)
FlattenAreas(areas) ==
    IF areas = <<>> THEN <<>>
    ELSE LET area == Head(areas)
             trails == [i \in 1..Len(OrElse(area.Trails, <<>>)) |->
                           [type |-> "trail", item |-> OrElse(area.Trails, <<>>)[i]]]
             areaLifts == [i \in 1..Len(OrElse(area.Lifts, <<>>)) |->
                           [type |-> "lift", item |-> OrElse(area.Lifts, <<>>)[i]]]
         IN  trails \o areaLifts \o FlattenAreas(Tail(areas))

TerrainRow(resortId, date, entry) ==
    [resort_id |-> resortId,
     date |-> date,
     item_name |-> entry.item.Name,
     item_type |-> entry.type,
     status |-> OrElse(entry.item.Status, IF entry.item.IsOpen THEN "Open" ELSE "Closed"),
     grooming_status |-> OrElse(entry.item.GroomingStatus,
                                IF entry.item.IsGroomed THEN "Groomed" ELSE Null),
     raw_data |-> entry.item]

SameTerrainKey(a, b) ==
    a.resort_id = b.resort_id /\ a.date = b.date /\ a.item_name = b.item_name

\* INSERT OR REPLACE under UNIQUE(resort_id, date, item_name)
InsertOrReplaceTerrain(table, row) ==
    {r \in table : ~SameTerrainKey(r, row)} \cup {row}

RECURSIVE UpsertTerrainRows(_, _, _, _)
UpsertTerrainRows(table, resortId, date, entries) ==
    IF entries = <<>> THEN table
    ELSE UpsertTerrainRows(InsertOrReplaceTerrain(table, TerrainRow(resortId, date, Head(entries))),
                           resortId, date, Tail(entries))

\* saveTerrainStatus(db, resortId, date, payload, callback): the feed is read
\* from payload.FMR; a payload without it, or without grooming areas, affects
\* no row
saveTerrainStatus(table, resortId, date, payload) ==
    IF "FMR" \in DOMAIN payload
    THEN UpsertTerrainRows(table, resortId, date,
                           FlattenAreas(OrElse(payload.FMR.GroomingAreas, <<>>)))
    ELSE table

\* a property of a payload that may be absent
Field(rec, name) == IF name \in DOMAIN rec THEN rec[name] ELSE Null

\* snowData.name?.sub as a column: <<>> is NULL, for an absent property
Sub(snowData, name, sub) ==
    IF name \in DOMAIN snowData /\ sub \in DOMAIN snowData[name]
    THEN <<snowData[name][sub]>> ELSE <<>>

\* saveSnowConditions(db, resortId, date, snowData, callback): one row per
\* (resort_id, date), INSERT OR REPLACE
saveSnowConditions(table, resortId, date, snowData) ==
    {r \in table : ~(r.resort_id = resortId /\ r.date = date)}
        \cup {[resort_id |-> resortId, date |-> date,
               base_depth_inches |-> Sub(snowData, "baseDepth", "inches"),
               new_snow_24h_inches |-> Sub(snowData, "newSnow24Hours", "inches"),
               weather_condition |-> Sub(snowData, "currentConditions", "weather")]}

(***************************************************************************)
(* Snapshot persistence (ski-scraper.js).                                  *)
(***************************************************************************)
\* fs.writeFileSync(path, content): creates or replaces
WriteFile(fs, path, content) == (path :> content) @@ fs

\* saveResortData: const today = getTodayDate()
TerrainFileDate(resortKey) == getTodayDate

\* a mutant: snow/latest.json is written only when it is not there yet
snowLatestAfterSave_KeepFirst(latest, resortKey, cleanData) ==
    IF resortKey \in DOMAIN latest THEN latest ELSE (resortKey :> cleanData) @@ latest

\* saveSnowData: data/{resort}/snow/latest.json, per resort, after the write
\* of the cleaned payload
snowLatestAfterSave(latest, resortKey, cleanData) == (resortKey :> cleanData) @@ latest

\* the files after saveResortData(resortKey, data), data not null
filesAfterSaveResortData(fs, resortKey, data) ==
    WriteFile(fs, SnapshotPath(resortKey, "terrain", TerrainFileDate(resortKey)), data)

\* saveResortData: saveTerrainStatus(database, resortId, today, { FMR: data }, ...)
saveResortDataToDatabase(table, resortId, date, data) ==
    saveTerrainStatus(table, resortId, date, [FMR |-> data])

\* the summary of saveResortData reads area.Trails of every area, and throws
\* when an area has none
SummaryThrows(data) ==
    /\ data.GroomingAreas # <<>>
    /\ \E i \in 1..Len(data.GroomingAreas[1]) : data.GroomingAreas[1][i].Trails = <<>>

\* saveSnowData: the cleaned payload (without its time stamp and forecast)
cleanSnowData(resortKey, rawData) ==
    [resort |-> resortKey,
     date |-> getTodayDate,
     conditions |-> OrElse(rawData.snowReport.OverallSnowConditions, Null),
     snowfall |-> [inches24hour |->
                      OrElse(rawData.snowReport.TwentyFourHourSnowfall, 0)],
     baseDepth |-> [inches |-> OrElse(rawData.snowReport.BaseDepth, 0)]]

snowDataForDb(cleanData) ==
    [baseDepth |-> [inches |-> cleanData.baseDepth.inches],
     newSnow24Hours |-> [inches |-> cleanData.snowfall.inches24hour],
     currentConditions |-> [weather |-> cleanData.conditions]]

(***************************************************************************)
(* The inputs of the scheduling specification.                             *)
(***************************************************************************)
ResortOrder == <<"keystone", "hakuba", "stowe", "perisher">>

ResortKeys == {ResortOrder[i] : i \in 1..Len(ResortOrder)}

Schedule ==
    [targetHour |-> 7, scrapingWindowHours |-> 3,
     defaultSeasonStart |-> <<11, 1>>, defaultSeasonEnd |-> <<5, 1>>]

\* config.resorts of the scheduling specification: a resort with its own
\* target hour, one east of UTC with target hour 0 and no snow report, one
\* with the terrain page under the legacy url field, one out of season
ResortConfig ==
    [keystone |-> [key |-> "keystone", timezone |-> 0 - 7, terrainUrl |-> TRUE,
                   url |-> FALSE, snowReportUrl |-> TRUE, seasonStart |-> <<>>,
                   seasonEnd |-> <<>>, targetHour |-> <<16>>],
     hakuba |-> [key |-> "hakuba", timezone |-> 9, terrainUrl |-> TRUE,
                 url |-> FALSE, snowReportUrl |-> FALSE, seasonStart |-> <<>>,
                 seasonEnd |-> <<>>, targetHour |-> <<0>>],
     stowe |-> [key |-> "stowe", timezone |-> 0 - 5, terrainUrl |-> FALSE,
                url |-> TRUE, snowReportUrl |-> TRUE, seasonStart |-> <<>>,
                seasonEnd |-> <<>>, targetHour |-> <<>>],
     perisher |-> [key |-> "perisher", timezone |-> 10, terrainUrl |-> TRUE,
                   url |-> FALSE, snowReportUrl |-> TRUE, seasonStart |-> <<6, 1>>,
                   seasonEnd |-> <<1, 5>>, targetHour |-> <<>>]]

\* 2025-01-10T21:00Z: 14:00 on January 10 in the zone of keystone, 06:00 on
\* January 11 in the zone of hakuba, 16:00 on January 10 in the zone of stowe
StartInstant == DayOfDate(20250110) * MinutesPerDay + 21 * 60

\* FR.TerrainStatusFeed as extracted from the page
Trail(name, groomed) ==
    [Name |-> name, IsOpen |-> TRUE, IsGroomed |-> groomed, Status |-> <<>>,
     GroomingStatus |-> <<>>]

Lift(name, open) ==
    [Name |-> name, IsOpen |-> open, IsGroomed |-> FALSE,
     Status |-> <<IF open THEN "Open" ELSE "Closed">>, GroomingStatus |-> <<>>]

Feed(areas) == [GroomingAreas |-> <<areas>>]

SchedFeed ==
    Feed(<<[Name |-> "Frontside", Trails |-> <<<<Trail("Schoolmarm", TRUE)>>>>,
            Lifts |-> <<<<Lift("Gondola", TRUE)>>>>]>>)

\* a feed without the GroomingAreas property, and a feed one of whose areas
\* has no Trails property
BareFeed == [GroomingAreas |-> <<>>]

LiftsOnlyFeed ==
    Feed(<<[Name |-> "Backbowls", Trails |-> <<>>,
            Lifts |-> <<<<Lift("Gondola", TRUE)>>>>]>>)

TerrainOutcomes ==
    {[kind |-> "throw"], [kind |-> "null"], [kind |-> "data", data |-> SchedFeed]}

\* what scrapeGroomingData does for a resort: the page of stowe may also
\* serve the two feeds above
TerrainOutcomesOf(resortKey) ==
    IF resortKey = "stowe"
    THEN TerrainOutcomes \cup {[kind |-> "data", data |-> BareFeed],
                               [kind |-> "data", data |-> LiftsOnlyFeed]}
    ELSE TerrainOutcomes

SchedSnowReport ==
    [snowReport |-> [OverallSnowConditions |-> <<"Powder">>,
                     TwentyFourHourSnowfall |-> <<6>>, BaseDepth |-> <<40>>]]

SnowOutcomes ==
    {[kind |-> "throw"], [kind |-> "null"], [kind |-> "data", data |-> SchedSnowReport]}

(***************************************************************************)
(* main() of ski-scraper.js.  An extraction and the save that follows it   *)
(* take place at one reading of the clock, and the callbacks of the        *)
(* database writes of a save have run when the step ends.  The store       *)
(* accepts the writes here; its errors are examined in the store           *)
(* specification.  The time stamps lastUpdated of the aggregate files are  *)
(* left out.                                                               *)
(***************************************************************************)
\* a mutant: the names in the order sort() leaves them, oldest first
RECURSIVE SortDescending_Ascending(_)
SortDescending_Ascending(S) ==
    IF S = {} THEN <<>>
    ELSE LET m == CHOOSE x \in S : \A y \in S : x <= y
         IN  <<m>> \o SortDescending_Ascending(S \ {m})

RECURSIVE SortDescending(_)
SortDescending(S) ==
    IF S = {} THEN <<>>
    ELSE LET m == CHOOSE x \in S : \A y \in S : y <= x
         IN  <<m>> \o SortDescending(S \ {m})

TerrainDates(fs, resortKey) == {p[3] : p \in {q \in DOMAIN fs : q[1] = resortKey /\ q[2] = "terrain"}}

generateIndexFile(fs) ==
    LET present == {k \in ResortKeys : TerrainDates(fs, k) # {}}
    IN  [k \in present |->
            LET sorted == SortDescending(TerrainDates(fs, k))
            IN  [files |-> sorted,
                 latest |-> IF sorted = <<>> THEN <<>> ELSE <<sorted[1]>>,
                 count |-> Len(sorted)]]

generateLatestFile(results) ==
    LET have == {i \in 1..Len(results) : results[i].terrain # <<>>}
    IN  [k \in {results[i].resortKey : i \in have} |->
            LET last == CHOOSE i \in have : results[i].resortKey = k
                            /\ \A j \in have : results[j].resortKey = k => j <= i
            IN  results[last].terrain[1]]

generateLatestSnowFile(results) ==
    LET have == {i \in 1..Len(results) : results[i].snow # <<>>}
    IN  [k \in {results[i].resortKey : i \in have} |->
            LET last == CHOOSE i \in have : results[i].resortKey = k
                            /\ \A j \in have : results[j].resortKey = k => j <= i
            IN  results[last].snow[1]]

NoLog == [op |-> "none"]

\* process.argv[2]: all resorts, one resort of the configuration, a key that
\* is not in the configuration
ResortArgs == {"all", "keystone", "nowhere"}

\* main, up to the loop: the resorts to check.  For a key that is not
\* configured main prints the keys and returns; nothing sets the exit code,
\* which stays 0
Start ==
    /\ pc = "idle"
    /\ \E resortArg \in ResortArgs :
          IF resortArg \in ResortKeys \/ resortArg = "all"
          THEN /\ resortsToCheck' = (IF resortArg = "all" THEN ResortOrder ELSE <<resortArg>>)
               /\ pc' = "loop"
               /\ runLog' = [op |-> "start", arg |-> resortArg]
          ELSE /\ runLog' = [op |-> "unknown", arg |-> resortArg, exitCode |-> 0]
               /\ UNCHANGED <<resortsToCheck, pc>>
    /\ scrapedData' = <<>>
    /\ scrapedCount' = 0
    /\ skippedCount' = 0
    /\ UNCHANGED <<now, config, RESORTS, asyncVars, files, snowLatest, latestJson, latestSnowJson,
                   indexJson, dbVars, seasonCheck, statVars, liftVars>>

\* the reason main prints for a resort it skips
SkipReason(status) ==
    IF ~status.inSeason THEN "out of season"
    ELSE IF ~status.inWindow THEN "outside scraping window"
    ELSE IF status.terrainScraped /\ status.snowScraped THEN "already scraped today"
    ELSE "no eligible data to scrape"

\* a mutant: scrapeResort extracts every kind the resort has a URL for
scrapeResortExtracts_IgnoresOptions(resort, options, dataType) ==
    IF dataType = "terrain" THEN resort.terrainUrl \/ resort.url
    ELSE resort.snowReportUrl

\* scrapeResort(resortKey, options): whether it extracts the kind
scrapeResortExtracts(resort, options, dataType) ==
    IF dataType = "terrain"
    THEN (resort.terrainUrl \/ resort.url) /\ options.terrain # FALSE
    ELSE resort.snowReportUrl /\ options.snow # FALSE

\* one iteration of the loop of main that scrapes: scrapeResort(resort.key, options)
ScrapeResort ==
    /\ pc = "loop"
    /\ resortsToCheck # <<>>
    /\ LET key == Head(resortsToCheck)
           resort == RESORTS[key]
       IN  \E status \in {getResortStatus(key)}, today \in {getTodayDate} :
           /\ status.shouldScrapeTerrain \/ status.shouldScrapeSnow
           /\ \E tOut \in TerrainOutcomesOf(key), sOut \in SnowOutcomes :
                LET options == [terrain |-> status.shouldScrapeTerrain,
                                snow |-> status.shouldScrapeSnow]
                    tryTerrain == scrapeResortExtracts(resort, options, "terrain")
                    trySnow == scrapeResortExtracts(resort, options, "snow")
                    tSaved == tryTerrain /\ tOut.kind = "data"
                    sSaved == trySnow /\ sOut.kind = "data"
                    files1 == IF tSaved THEN filesAfterSaveResortData(files, key, tOut.data)
                              ELSE files
                    clean == cleanSnowData(key, sOut.data)
                    snowPath == SnapshotPath(key, "snow", today)
                    resorts1 == IF tSaved \/ sSaved THEN getOrCreateResort(dbResorts, key)
                                ELSE dbResorts
                    result == [resortKey |-> key,
                               terrain |-> IF tSaved /\ ~SummaryThrows(tOut.data)
                                           THEN <<[date |-> today, data |-> tOut.data]>>
                                           ELSE <<>>,
                               snow |-> IF sSaved THEN <<[date |-> today, data |-> clean]>>
                                        ELSE <<>>]
                IN  /\ files' = (IF sSaved THEN WriteFile(files1, snowPath, clean) ELSE files1)
                    /\ snowLatest' = (IF sSaved THEN snowLatestAfterSave(snowLatest, key, clean)
                                      ELSE snowLatest)
                    /\ dbResorts' = resorts1
                    /\ terrain_status' =
                          (IF tSaved
                           THEN saveResortDataToDatabase(terrain_status, resorts1[key], today,
                                                         tOut.data)
                           ELSE terrain_status)
                    /\ snow_conditions' =
                          (IF sSaved
                           THEN saveSnowConditions(snow_conditions, resorts1[key], today,
                                                   snowDataForDb(clean))
                           ELSE snow_conditions)
                    /\ scrapedData' = Append(scrapedData, result)
                    /\ runLog' = [op |-> "scrape", status |-> status,
                                  terrain |-> IF tryTerrain THEN tOut.kind ELSE "off",
                                  snow |-> IF trySnow THEN sOut.kind ELSE "off",
                                  written |->
                                     (IF tSaved
                                      THEN {SnapshotPath(key, "terrain", TerrainFileDate(key))}
                                      ELSE {})
                                     \cup (IF sSaved THEN {snowPath} ELSE {})]
    /\ scrapedCount' = scrapedCount + 1
    /\ resortsToCheck' = Tail(resortsToCheck)
    /\ UNCHANGED <<now, config, RESORTS, asyncVars, latestJson, latestSnowJson, indexJson, pc,
                   skippedCount, seasonCheck, statVars, liftVars>>

\* one iteration of the loop of main that skips the resort
SkipResort ==
    /\ pc = "loop"
    /\ resortsToCheck # <<>>
    /\ \E status \in {getResortStatus(Head(resortsToCheck))} :
           /\ ~(status.shouldScrapeTerrain \/ status.shouldScrapeSnow)
           /\ runLog' = [op |-> "skip", status |-> status, reason |-> SkipReason(status)]
    /\ skippedCount' = skippedCount + 1
    /\ resortsToCheck' = Tail(resortsToCheck)
    /\ UNCHANGED <<now, config, RESORTS, asyncVars, files, snowLatest, latestJson, latestSnowJson,
                   indexJson, dbVars, pc, scrapedData, scrapedCount, seasonCheck,
                   statVars, liftVars>>

\* main, after the loop: the summary and the aggregate files
Finish ==
    /\ pc = "loop"
    /\ resortsToCheck = <<>>
    /\ IF Len(scrapedData) > 0
       THEN /\ latestJson' = <<generateLatestFile(scrapedData)>>
            /\ latestSnowJson' = (IF DOMAIN generateLatestSnowFile(scrapedData) # {}
                                  THEN <<generateLatestSnowFile(scrapedData)>>
                                  ELSE latestSnowJson)
            /\ indexJson' = <<generateIndexFile(files)>>
       ELSE UNCHANGED <<latestJson, latestSnowJson, indexJson>>
    /\ runLog' = [op |-> "summary", scraped |-> scrapedCount, skipped |-> skippedCount,
                  results |-> scrapedData]
    /\ pc' = "idle"
    /\ scrapedData' = <<>>
    /\ scrapedCount' = 0
    /\ skippedCount' = 0
    /\ UNCHANGED <<now, config, RESORTS, asyncVars, files, snowLatest, dbVars, resortsToCheck,
                   seasonCheck, statVars, liftVars>>

\* an hour passes between two invocations
Tick ==
    /\ pc = "idle"
    /\ now < StartInstant + MaxHours * 60
    /\ now' = now + 60
    /\ runLog' = NoLog
    /\ UNCHANGED <<config, RESORTS, asyncVars, files, snowLatest, latestJson, latestSnowJson,
                   indexJson, dbVars, pc, resortsToCheck, scrapedData, scrapedCount,
                   skippedCount, seasonCheck, statVars, liftVars>>

\* the variables a specification does not use
IdleSeason == seasonCheck = <<>>
IdleStats == records = <<>> /\ processTz = 0 /\ trailStats = <<>>
IdleLifts == lifts = <<>> /\ liftWindow = <<>> /\ poller = [pc |-> "idle"]
IdleAsync ==
    /\ dbHandle = [pc |-> "idle"] /\ trailPass = [pc |-> "idle"]
    /\ page = [pc |-> "idle"]
IdleDb == dbResorts = <<>> /\ terrain_status = {} /\ snow_conditions = {}
IdleSched ==
    /\ files = <<>> /\ snowLatest = <<>> /\ latestJson = <<>> /\ latestSnowJson = <<>>
    /\ indexJson = <<>> /\ pc = "idle" /\ resortsToCheck = <<>> /\ scrapedData = <<>>
    /\ scrapedCount = 0 /\ skippedCount = 0 /\ runLog = NoLog

Init ==
    /\ now = StartInstant
    /\ config = Schedule
    /\ IdleAsync
    /\ RESORTS = ResortConfig
    /\ IdleSched /\ IdleDb /\ IdleSeason /\ IdleStats /\ IdleLifts

Next == Start \/ ScrapeResort \/ SkipResort \/ Finish \/ Tick

Spec == Init /\ [][Next]_vars

(***************************************************************************)
(* Claims about the scheduling specification.                              *)
(***************************************************************************)
DataTypes == {"terrain", "snow"}

\* the snapshot path of the latest step of main for a resort and a kind
WrittenBy(log, resortKey, dataType) ==
    {p \in (IF log.op = "scrape" THEN log.written ELSE {}) :
        p[1] = resortKey /\ p[2] = dataType}

\* C1: once a scrape has succeeded and its snapshot is written, the resort is
\* no longer eligible for that kind in the same resort-local day, whatever the
\* local hour.  Files are never removed, so it is enough that the resort is
\* not eligible right after the step that wrote the snapshot.
C1_NotEligibleAfterSave ==
    \A k \in ResortKeys, t \in DataTypes :
        WrittenBy(runLog, k, t) # {} => ~shouldScrapeResort(k, t)

C4_DatedSnapshotWrittenOnce ==
    [][\A p \in (IF runLog'.op = "scrape" THEN runLog'.written ELSE {}) :
          p \notin DOMAIN files]_vars

(***************************************************************************)
(* The season specification: isResortInSeason of ski-scraper.js and of     *)
(* lift-scraper.js, evaluated day after day.                               *)
(***************************************************************************)
\* config.resorts of the season specification: the default season in two
\* zones, a season of its own that starts in the middle of a month, and a
\* season that does not wrap the year
SeasonResortConfig ==
    [keystone |-> [key |-> "keystone", timezone |-> 0 - 7, terrainUrl |-> TRUE,
                   url |-> FALSE, snowReportUrl |-> TRUE, seasonStart |-> <<>>,
                   seasonEnd |-> <<>>, targetHour |-> <<>>],
     hakuba |-> [key |-> "hakuba", timezone |-> 9, terrainUrl |-> TRUE,
                 url |-> FALSE, snowReportUrl |-> TRUE, seasonStart |-> <<>>,
                 seasonEnd |-> <<>>, targetHour |-> <<>>],
     stowe |-> [key |-> "stowe", timezone |-> 0 - 5, terrainUrl |-> TRUE,
                url |-> FALSE, snowReportUrl |-> TRUE, seasonStart |-> <<11, 20>>,
                seasonEnd |-> <<4, 15>>, targetHour |-> <<>>],
     perisher |-> [key |-> "perisher", timezone |-> 10, terrainUrl |-> TRUE,
                   url |-> FALSE, snowReportUrl |-> TRUE, seasonStart |-> <<6, 1>>,
                   seasonEnd |-> <<10, 1>>, targetHour |-> <<>>]]

\* 2024-10-25T03:00Z: the evening of October 24 in the American zones
SeasonStartInstant == DayOfDate(20241025) * MinutesPerDay + 3 * 60

\* ski-scraper.js and lift-scraper.js examine a resort
CheckSeason ==
    /\ \E k \in ResortKeys :
          seasonCheck' = <<[resortKey |-> k,
                            localDate |-> getResortLocalDate(RESORTS[k].timezone),
                            ski |-> isResortInSeason(RESORTS[k]),
                            lift |-> liftIsResortInSeason(RESORTS[k])]>>
    /\ UNCHANGED <<now, config, RESORTS, asyncVars, schedVars, dbVars, statVars, liftVars>>

\* a day passes
NextDay ==
    /\ now < SeasonStartInstant + MaxSeasonDays * MinutesPerDay
    /\ now' = now + MinutesPerDay
    /\ seasonCheck' = <<>>
    /\ UNCHANGED <<config, RESORTS, asyncVars, schedVars, dbVars, statVars, liftVars>>

InitSeason ==
    /\ now = SeasonStartInstant
    /\ config = Schedule
    /\ IdleAsync
    /\ RESORTS = SeasonResortConfig
    /\ IdleSched /\ IdleDb /\ IdleSeason /\ IdleStats /\ IdleLifts

NextSeason == CheckSeason \/ NextDay

SpecSeason == InitSeason /\ [][NextSeason]_vars

importTerrainFile_Unwrapped(table, resortId, date, data) ==
    saveTerrainStatus(table, resortId, date, data)

\* importHistoricalData, one terrain file: the date is the file name, the
\* content is wrapped as { FMR: data }
importTerrainFile(table, resortId, date, data) ==
    saveTerrainStatus(table, resortId, date, [FMR |-> data])

RECURSIVE importTerrainFiles(_, _, _, _, _)
importTerrainFiles(table, resortId, fs, resortKey, dates) ==
    IF dates = {} THEN table
    ELSE LET date == CHOOSE d \in dates : \A e \in dates : d <= e
         IN  importTerrainFiles(
                importTerrainFile(table, resortId, date,
                                  fs[SnapshotPath(resortKey, "terrain", date)]),
                resortId, fs, resortKey, dates \ {date})

SnowDates(fs, resortKey) == {p[3] : p \in {q \in DOMAIN fs : q[1] = resortKey /\ q[2] = "snow"}}

RECURSIVE importSnowFiles(_, _, _, _, _)
importSnowFiles(table, resortId, fs, resortKey, dates) ==
    IF dates = {} THEN table
    ELSE LET date == CHOOSE d \in dates : \A e \in dates : d <= e
         IN  importSnowFiles(
                saveSnowConditions(table, resortId, date,
                                   fs[SnapshotPath(resortKey, "snow", date)]),
                resortId, fs, resortKey, dates \ {date})

\* importHistoricalData: every resort of the configuration in turn, its
\* terrain files and then its snow files
RECURSIVE importHistoricalData(_, _, _)
importHistoricalData(fs, db, resortKeys) ==
    IF resortKeys = <<>> THEN db
    ELSE LET resortKey == Head(resortKeys)
             resorts1 == getOrCreateResort(db.resorts, resortKey)
             resortId == resorts1[resortKey]
         IN  importHistoricalData(fs,
                [resorts |-> resorts1,
                 terrain |-> importTerrainFiles(db.terrain, resortId, fs, resortKey,
                                                TerrainDates(fs, resortKey)),
                 snow |-> importSnowFiles(db.snow, resortId, fs, resortKey,
                                          SnowDates(fs, resortKey))],
                Tail(resortKeys))

\* the feeds of the relational specification: the second names a trail in two
\* areas and has no lift
DbFeeds ==
    {Feed(<<[Name |-> "Frontside",
             Trails |-> <<<<Trail("Schoolmarm", TRUE), Trail("Spring Dipper", FALSE)>>>>,
             Lifts |-> <<<<Lift("Gondola", TRUE)>>>>]>>),
     Feed(<<[Name |-> "Frontside", Trails |-> <<<<Trail("Schoolmarm", TRUE)>>>>,
             Lifts |-> <<>>],
            [Name |-> "Backside", Trails |-> <<<<Trail("Schoolmarm", FALSE)>>>>,
             Lifts |-> <<>>]>>)}

DbKeys == {"keystone", "hakuba"}

\* the feeds a live extraction of a resort may return: both for keystone, the
\* one with a single area for hakuba
DbFeedsOf(resortKey) ==
    {f \in DbFeeds : resortKey = "keystone" \/ Len(f.GroomingAreas[1]) = 1}

\* snapshots of a day before the store existed
HistoricalFiles ==
    [p \in {SnapshotPath(k, "terrain", 20250109) : k \in DbKeys} |->
        CHOOSE f \in DbFeeds : (p[1] = "hakuba") <=> (Len(f.GroomingAreas[1]) = 2)]

\* what the callbacks of the store report to saveResortData: no error, an
\* error of getOrCreateResort, an error of saveTerrainStatus
DbErrors == {"none", "resort", "terrain"}

\* the errors examined for a resort: the writes for hakuba may fail
DbErrorsOf(resortKey) == IF resortKey = "hakuba" THEN DbErrors ELSE {"none"}

\* saveResortData(resortKey, data), data not null: the file is written, then
\* the store is written; an error of the store is logged and nothing else
SaveResortData ==
    /\ \E resortKey \in DbKeys :
       \E data \in DbFeedsOf(resortKey), dbError \in DbErrorsOf(resortKey) :
          LET resorts1 == IF dbError = "resort" THEN dbResorts
                          ELSE getOrCreateResort(dbResorts, resortKey)
          IN  /\ files' = filesAfterSaveResortData(files, resortKey, data)
              /\ dbResorts' = resorts1
              /\ terrain_status' =
                    (IF dbError = "none"
                     THEN saveResortDataToDatabase(terrain_status, resorts1[resortKey],
                                                   getTodayDate, data)
                     ELSE terrain_status)
              /\ runLog' = [op |-> "save", resortKey |-> resortKey,
                            date |-> getTodayDate, data |-> data, dbError |-> dbError]
    /\ UNCHANGED <<now, config, RESORTS, asyncVars, snowLatest, latestJson, latestSnowJson,
                   indexJson, snow_conditions, pc, resortsToCheck, scrapedData,
                   scrapedCount, skippedCount, seasonCheck, statVars, liftVars>>

\* node import-to-database.js
ImportHistoricalData ==
    /\ \E db \in {importHistoricalData(files,
                     [resorts |-> dbResorts, terrain |-> terrain_status,
                      snow |-> snow_conditions], ResortOrder)} :
          /\ dbResorts' = db.resorts
          /\ terrain_status' = db.terrain
          /\ snow_conditions' = db.snow
    /\ runLog' = [op |-> "import"]
    /\ UNCHANGED <<now, config, RESORTS, asyncVars, files, snowLatest, latestJson, latestSnowJson,
                   indexJson, pc, resortsToCheck, scrapedData, scrapedCount,
                   skippedCount, seasonCheck, statVars, liftVars>>

\* a day passes
DbNextDay ==
    /\ now < StartInstant + MaxDbDays * MinutesPerDay
    /\ now' = now + MinutesPerDay
    /\ runLog' = NoLog
    /\ UNCHANGED <<config, RESORTS, asyncVars, files, snowLatest, latestJson, latestSnowJson,
                   indexJson, dbVars, pc, resortsToCheck, scrapedData, scrapedCount,
                   skippedCount, seasonCheck, statVars, liftVars>>

InitDb ==
    /\ now = StartInstant
    /\ config = Schedule
    /\ IdleAsync
    /\ RESORTS = ResortConfig
    /\ files \in {<<>>, HistoricalFiles}
    /\ snowLatest = <<>> /\ latestJson = <<>> /\ latestSnowJson = <<>>
    /\ indexJson = <<>> /\ pc = "idle" /\ resortsToCheck = <<>> /\ scrapedData = <<>>
    /\ scrapedCount = 0 /\ skippedCount = 0 /\ runLog = NoLog
    /\ IdleDb /\ IdleSeason /\ IdleStats /\ IdleLifts

NextDb == SaveResortData \/ ImportHistoricalData \/ DbNextDay

SpecDb == InitDb /\ [][NextDb]_vars

\* the row the store must hold for an item of a feed: the row of the last
\* entry of the feed with that name
ExpectedTerrainRows(resortId, date, data) ==
    LET entries == FlattenAreas(OrElse(data.GroomingAreas, <<>>))
        last(name) == CHOOSE i \in 1..Len(entries) :
                         /\ entries[i].item.Name = name
                         /\ \A j \in 1..Len(entries) : entries[j].item.Name = name => j <= i
    IN  {TerrainRow(resortId, date, entries[last(entries[i].item.Name)]) :
            i \in 1..Len(entries)}

\* C5: the terrain_status store holds at most one row per (resort_id, date,
\* item_name) after any sequence of live saves and historical imports;
\* ingesting a payload a second time for the same resort and date, or
\* importing a second time, changes nothing; and after an ingest that the
\* store accepted, the rows of the items of the payload are the rows of that
\* payload, whatever the store held for those keys before
C5_TerrainUpsert ==
    /\ \A r1, r2 \in terrain_status : SameTerrainKey(r1, r2) => r1 = r2
    /\ \A k \in DOMAIN dbResorts, data \in DbFeeds, date \in {20250109, getTodayDate} :
          LET once == saveResortDataToDatabase(terrain_status, dbResorts[k], date, data)
          IN  /\ saveResortDataToDatabase(once, dbResorts[k], date, data) = once
              /\ importTerrainFile(importTerrainFile(terrain_status, dbResorts[k], date, data),
                                   dbResorts[k], date, data)
                    = importTerrainFile(terrain_status, dbResorts[k], date, data)
    /\ runLog.op = "save" /\ runLog.dbError = "none" =>
          ExpectedTerrainRows(dbResorts[runLog.resortKey], runLog.date, runLog.data)
             \subseteq terrain_status
    /\ runLog.op = "import" =>
          \A p \in DOMAIN files :
             p[2] = "terrain" =>
                ExpectedTerrainRows(dbResorts[p[1]], p[3], files[p]) \subseteq terrain_status

\* C5: a live save has replaced the row of a trail that an earlier save of the
\* same day wrote, the lift row of the earlier payload is still there, and the
\* rows of an imported historical day are in the store
C5_ReplacedWitness ==
    /\ runLog.op = "save"
    /\ runLog.dbError = "none"
    /\ files # <<>>
    /\ \E r \in terrain_status :
          /\ r.item_name = "Schoolmarm" /\ r.date = runLog.date
          /\ r.resort_id = dbResorts[runLog.resortKey]
          /\ r.grooming_status = Null
    /\ \E r \in terrain_status :
          /\ r.item_name = "Gondola" /\ r.date = runLog.date
          /\ r.resort_id = dbResorts[runLog.resortKey]
    /\ \E r \in terrain_status : r.date = 20250109

(***************************************************************************)
(* The statistics specification: calculateGroomingStreaks and              *)
(* calculateDayOfWeekStats of ski-scraper.js and of generate-trail-data.js *)
(* (whose copies of the streak function are the same text), and the        *)
(* statistics the two generators build from the rows of one trail.  A      *)
(* column that is null is an empty sequence in a result.                   *)
(***************************************************************************)
\* JavaScript truthiness of the grooming_status column
IsGroomedRow(record) == record.grooming_status # Null /\ record.grooming_status # ""

\* a mutant: the rows are taken in the order they are supplied
sortByDateDescending_AsSupplied(rows) == rows

RECURSIVE InsertByDate(_, _)
InsertByDate(sorted, record) ==
    IF sorted = <<>> THEN <<record>>
    ELSE IF Head(sorted).date >= record.date
         THEN <<Head(sorted)>> \o InsertByDate(Tail(sorted), record)
         ELSE <<record>> \o sorted

RECURSIVE SortInto(_, _)
SortInto(sorted, rest) ==
    IF rest = <<>> THEN sorted
    ELSE SortInto(InsertByDate(sorted, Head(rest)), Tail(rest))

\* records.slice().sort((a, b) => b.date.localeCompare(a.date)): a stable sort
sortByDateDescending(rows) == SortInto(<<>>, rows)

Reverse(seq) == [i \in 1..Len(seq) |-> seq[Len(seq) + 1 - i]]

\* the loop of the current streak: it stops at the first row that is not groomed
RECURSIVE LeadingGroomed(_)
LeadingGroomed(sorted) ==
    IF sorted = <<>> THEN 0
    ELSE IF IsGroomedRow(Head(sorted)) THEN 1 + LeadingGroomed(Tail(sorted))
    ELSE 0

\* the loop of the longest streak, over the rows in chronological order
RECURSIVE ScanLongest(_, _, _)
ScanLongest(chronological, tempStreak, longestStreak) ==
    IF chronological = <<>> THEN longestStreak
    ELSE IF IsGroomedRow(Head(chronological))
         THEN ScanLongest(Tail(chronological), tempStreak + 1,
                          IF tempStreak + 1 > longestStreak THEN tempStreak + 1
                          ELSE longestStreak)
         ELSE ScanLongest(Tail(chronological), 0, longestStreak)

\* the loop of the last groomed date: the first groomed row of the sorted rows
FirstGroomedDate(sorted) ==
    LET groomedAt == {i \in 1..Len(sorted) : IsGroomedRow(sorted[i])}
    IN  IF groomedAt = {} THEN <<>>
        ELSE <<sorted[CHOOSE i \in groomedAt : \A j \in groomedAt : i <= j].date>>

\* a mutant: the current streak is the number of groomed rows
calculateGroomingStreaks_TotalGroomed(rows) ==
    IF Len(rows) = 0
    THEN [currentStreak |-> 0, longestStreak |-> 0, lastGroomedDate |-> <<>>]
    ELSE LET sorted == sortByDateDescending(rows)
         IN  [currentStreak |-> Cardinality({i \in 1..Len(rows) : IsGroomedRow(rows[i])}),
              longestStreak |-> ScanLongest(Reverse(sorted), 0, 0),
              lastGroomedDate |-> FirstGroomedDate(sorted)]

\* calculateGroomingStreaks of ski-scraper.js
calculateGroomingStreaks(rows) ==
    IF Len(rows) = 0
    THEN [currentStreak |-> 0, longestStreak |-> 0, lastGroomedDate |-> <<>>]
    ELSE LET sorted == sortByDateDescending(rows)
         IN  [currentStreak |-> LeadingGroomed(sorted),
              longestStreak |-> ScanLongest(Reverse(sorted), 0, 0),
              lastGroomedDate |-> FirstGroomedDate(sorted)]

\* calculateGroomingStreaks of generate-trail-data.js
standaloneCalculateGroomingStreaks(rows) ==
    IF Len(rows) = 0
    THEN [currentStreak |-> 0, longestStreak |-> 0, lastGroomedDate |-> <<>>]
    ELSE LET sorted == sortByDateDescending(rows)
         IN  [currentStreak |-> LeadingGroomed(sorted),
              longestStreak |-> ScanLongest(Reverse(sorted), 0, 0),
              lastGroomedDate |-> FirstGroomedDate(sorted)]

\* what stands for NaN: a value no percentage takes
NotANumber == 0 - 1

\* a mutant: the percentage without its guard, 0 / 0 being NaN
roundedPercentage_Unguarded(groomed, total) ==
    IF total = 0 THEN NotANumber ELSE (200 * groomed + total) \div (2 * total)

\* total > 0 ? Math.round((groomed / total) * 100) : 0; Math.round rounds a
\* half up, and no quotient of counts up to six lies within a rounding error
\* of a half
roundedPercentage(groomed, total) ==
    IF total > 0 THEN (200 * groomed + total) \div (2 * total) ELSE 0

daysOfWeek == <<"Sun", "Mon", "Tue", "Wed", "Thu", "Fri", "Sat">>

\* Date.prototype.getDay of a day of the process's zone
getDay(dayNumber) == (dayNumber + Epoch.weekday) % 7

\* the tally of calculateDayOfWeekStats, given the day index of each row
DayOfWeekTally(rows, dayIndex) ==
    [d \in 1..7 |->
        LET mine == {i \in 1..Len(rows) : dayIndex[i] = d - 1}
            groomed == Cardinality({i \in mine : IsGroomedRow(rows[i])})
        IN  [day |-> daysOfWeek[d],
             percentage |-> roundedPercentage(groomed, Cardinality(mine)),
             groomed |-> groomed,
             total |-> Cardinality(mine)]]

\* calculateDayOfWeekStats of ski-scraper.js: new Date(record.date) is midnight
\* UTC, and getDay reads it in the zone of the process
calculateDayOfWeekStats(rows) ==
    DayOfWeekTally(rows,
        [i \in 1..Len(rows) |->
            getDay((DayOfDate(rows[i].date) * MinutesPerDay + processTz * 60)
                      \div MinutesPerDay)])

\* calculateDayOfWeekStats of generate-trail-data.js: new Date(record.date +
\* 'T00:00:00') is midnight in the zone of the process
standaloneCalculateDayOfWeekStats(rows) ==
    DayOfWeekTally(rows, [i \in 1..Len(rows) |-> getDay(DayOfDate(rows[i].date))])

\* rows.slice(0, 90)
HistoryLimit == 90

historicalRecords(rows) ==
    [i \in 1..(IF Len(rows) < HistoryLimit THEN Len(rows) ELSE HistoryLimit) |->
        [date |-> rows[i].date,
         isOpen |-> rows[i].status = "Open",
         isGroomed |-> IsGroomedRow(rows[i]),
         groomingStatus |-> IF IsGroomedRow(rows[i]) THEN rows[i].grooming_status
                            ELSE Null]]

\* generateTrailData, the callback of the query: the statistics and the history
\* of the trail data object
trailDataOf(rows, streaks, dayOfWeekStats) ==
    LET daysGroomed == Cardinality({i \in 1..Len(rows) : IsGroomedRow(rows[i])})
    IN  [stats |-> [daysTracked |-> Len(rows),
                    daysGroomed |-> daysGroomed,
                    groomingPercentage |-> roundedPercentage(daysGroomed, Len(rows)),
                    currentStreak |-> streaks.currentStreak,
                    longestStreak |-> streaks.longestStreak,
                    lastGroomed |-> streaks.lastGroomedDate,
                    dayOfWeek |-> dayOfWeekStats],
         history |-> historicalRecords(rows)]

generateTrailData(rows) ==
    trailDataOf(rows, calculateGroomingStreaks(rows), calculateDayOfWeekStats(rows))

generateTrailDataForResort(rows) ==
    trailDataOf(rows, standaloneCalculateGroomingStreaks(rows),
                standaloneCalculateDayOfWeekStats(rows))

\* five consecutive days across the end of a month
StatDates == {20250130, 20250131, 20250201, 20250202, 20250203}

\* a row of terrain_status as the query returns it
StatRow(date, groomed) ==
    [date |-> date, status |-> IF groomed THEN "Open" ELSE "Closed",
     grooming_status |-> IF groomed THEN "Groomed" ELSE Null]

\* the zone of the process: Denver, UTC
ProcessZones == {0 - 7, 0}

\* ski-scraper.js builds the trail data
GenerateTrailData ==
    /\ trailStats' = <<[by |-> "ski-scraper"] @@ generateTrailData(records)>>
    /\ UNCHANGED <<now, config, RESORTS, asyncVars, schedVars, dbVars, seasonCheck, records,
                   processTz, liftVars>>

\* generate-trail-data.js builds the trail data
GenerateTrailDataForResort ==
    /\ trailStats' = <<[by |-> "generate-trail-data"] @@ generateTrailDataForResort(records)>>
    /\ UNCHANGED <<now, config, RESORTS, asyncVars, schedVars, dbVars, seasonCheck, records,
                   processTz, liftVars>>

\* the rows of one trail, at most one per date, in any order
InitStats ==
    /\ now = StartInstant
    /\ config = Schedule
    /\ IdleAsync
    /\ RESORTS = ResortConfig
    /\ IdleSched /\ IdleDb /\ IdleSeason /\ IdleLifts
    /\ processTz \in ProcessZones
    /\ trailStats = <<>>
    /\ \E n \in 0..MaxRows :
          \E dates \in [1..n -> StatDates] :
             /\ \A i, j \in 1..n : dates[i] = dates[j] => i = j
             /\ \E groomed \in [1..n -> BOOLEAN] :
                   records = [i \in 1..n |-> StatRow(dates[i], groomed[i])]

NextStats == GenerateTrailData \/ GenerateTrailDataForResort

SpecStats == InitStats /\ [][NextStats]_vars

(***************************************************************************)
(* Claims about the statistics specification.                              *)
(***************************************************************************)
\* the statistics a generator has built
Built == IF trailStats = <<>> THEN {} ELSE {trailStats[1]}

\* the row at a rank of recency: rank 1 is the row of the latest date
ByRecency(rows, rank) ==
    rows[CHOOSE i \in 1..Len(rows) :
            Cardinality({j \in 1..Len(rows) : rows[j].date > rows[i].date}) = rank - 1]

\* the pattern of the rows, most recent first
GroomedByRecency(rows) == [k \in 1..Len(rows) |-> IsGroomedRow(ByRecency(rows, k))]

\* the rows supplied in ascending order of date
AscendingByDate(rows) == [k \in 1..Len(rows) |-> ByRecency(rows, Len(rows) + 1 - k)]

OnConsecutiveDays(rows) ==
    \A i \in 1..Len(rows) :
        \A k \in 1..Len(rows) :
            ByRecency(rows, k) = rows[i] =>
                DayOfDate(rows[i].date) = DayOfDate(ByRecency(rows, 1).date) - (k - 1)

\* C6: the current streak is the number of consecutive calendar days, backward
\* from the most recent recorded date, that have a groomed row; a day without a
\* row ends it
C6_GapEndsStreak ==
    \A built \in Built :
        records # <<>> =>
            LET latest == DayOfDate(ByRecency(records, 1).date)
                groomedOn(day) == \E i \in 1..Len(records) :
                                     /\ DayOfDate(records[i].date) = day
                                     /\ IsGroomedRow(records[i])
            IN  built.stats.currentStreak =
                   Cardinality({k \in 1..Len(records) :
                                   \A j \in 0..(k - 1) : groomedOn(latest - j)})

\* C7: for rows on consecutive days, the current streak is the length of the
\* longest prefix of groomed rows, most recent first, and the longest streak is
\* the length of the longest run of groomed rows; for the pattern groomed,
\* groomed, not groomed, groomed, groomed both are 2
C7_StreaksOnConsecutiveDays ==
    \A built \in Built :
        OnConsecutiveDays(records) =>
            LET pattern == GroomedByRecency(records)
                n == Len(pattern)
                runs == {<<a, b>> \in (1..n) \X (1..n) :
                            a <= b /\ \A k \in a..b : pattern[k]}
                streaks == calculateGroomingStreaks(records)
            IN  /\ built.stats.currentStreak =
                      Cardinality({k \in 1..n : \A j \in 1..k : pattern[j]})
                /\ \A r \in runs : built.stats.longestStreak >= r[2] - r[1] + 1
                /\ \/ built.stats.longestStreak = 0 /\ runs = {}
                   \/ \E r \in runs : built.stats.longestStreak = r[2] - r[1] + 1
                /\ pattern = <<TRUE, TRUE, FALSE, TRUE, TRUE>> =>
                      /\ built.stats.currentStreak = 2 /\ built.stats.longestStreak = 2
                      /\ streaks.currentStreak = 2 /\ streaks.longestStreak = 2

\* C7: statistics were built from rows of five consecutive days, supplied out
\* of order, whose pattern is groomed, groomed, not groomed, groomed, groomed
C7_ExampleWitness ==
    /\ trailStats # <<>>
    /\ Len(records) = 5
    /\ GroomedByRecency(records) = <<TRUE, TRUE, FALSE, TRUE, TRUE>>
    /\ records[1].date < records[2].date
    /\ trailStats[1].stats.currentStreak = 2
    /\ trailStats[1].stats.longestStreak = 2

\* C8: the statistics built from rows with distinct dates are those of the same
\* rows supplied in ascending order of date, so that every order of one set of
\* rows gives the same current streak, longest streak, last groomed date, days
\* tracked, days groomed, grooming percentage and day-of-week statistics
C8_OrderIndependent ==
    \A built \in Built :
        LET canonical == AscendingByDate(records)
        IN  built.stats = (IF built.by = "ski-scraper"
                           THEN generateTrailData(canonical).stats
                           ELSE generateTrailDataForResort(canonical).stats)

\* C8: statistics were built from rows that are neither in descending nor in
\* ascending order of date, the most recent of them not groomed
C8_ShuffledWitness ==
    /\ trailStats # <<>>
    /\ Len(records) >= 3
    /\ records[1].date < records[2].date /\ records[2].date > records[3].date
    /\ IsGroomedRow(records[1]) /\ ~IsGroomedRow(records[2])
    /\ trailStats[1].stats.currentStreak = 0
    /\ trailStats[1].stats.daysGroomed >= 1

\* C9: with no row, the statistics are 0 days tracked, 0 days groomed,
\* percentage 0, streaks 0, no last groomed date, every weekday with total 0
\* and percentage 0, and an empty history
C9_ZeroRows ==
    \A built \in Built :
        records = <<>> =>
            /\ built.stats.daysTracked = 0 /\ built.stats.daysGroomed = 0
            /\ built.stats.groomingPercentage = 0
            /\ built.stats.currentStreak = 0 /\ built.stats.longestStreak = 0
            /\ built.stats.lastGroomed = <<>>
            /\ Len(built.stats.dayOfWeek) = 7
            /\ \A d \in 1..7 : /\ built.stats.dayOfWeek[d].total = 0
                               /\ built.stats.dayOfWeek[d].groomed = 0
                               /\ built.stats.dayOfWeek[d].percentage = 0
            /\ built.history = <<>>

\* C9: statistics were built from no row
C9_ZeroRowsWitness ==
    /\ trailStats # <<>>
    /\ records = <<>>
    /\ trailStats[1].stats.daysTracked = 0

(***************************************************************************)
(* The lift specification: getLiftOperatingWindow of lift-scraper.js.  A   *)
(* time 'HH:mm' is a pair of an hour and a minute, and a lift without an   *)
(* OpenTime or a CloseTime has the empty sequence there.                   *)
(***************************************************************************)
\* timeToMinutes(timeStr), timeStr not empty
timeToMinutes(timeStr) == timeStr[1] * 60 + timeStr[2]

\* Math.floor(m / 60) and m % 60, each padded to two digits
minutesToTime(minutes) == <<minutes \div 60, minutes % 60>>

\* formatInTimeZone(now, timezone, 'HH:mm')
getResortLocalTime(timezone) ==
    <<(ZonedMinutes(timezone) % MinutesPerDay) \div 60, ZonedMinutes(timezone) % 60>>

\* lifts.map(l => l.OpenTime).filter(Boolean).map(timeToMinutes), and the same
\* for CloseTime
TimesInMinutes(times) ==
    {timeToMinutes(times[i][1]) : i \in {j \in 1..Len(times) : times[j] # <<>>}}

\* a mutant: the closing minute is outside the window
getLiftOperatingWindow_ExclusiveClose(liftList, timezone) ==
    LET openTimes == TimesInMinutes([i \in 1..Len(liftList) |-> liftList[i].OpenTime])
        closeTimes == TimesInMinutes([i \in 1..Len(liftList) |-> liftList[i].CloseTime])
        minOpenMinutes == CHOOSE m \in openTimes : \A o \in openTimes : m <= o
        maxCloseMinutes == CHOOSE m \in closeTimes : \A c \in closeTimes : m >= c
        currentMinutes == timeToMinutes(getResortLocalTime(timezone))
        isOpen == currentMinutes >= minOpenMinutes /\ currentMinutes < maxCloseMinutes
    IN  IF Len(liftList) = 0
        THEN [isOpen |-> FALSE, reason |-> "No lift data available"]
        ELSE IF openTimes = {} \/ closeTimes = {}
        THEN [isOpen |-> FALSE, reason |-> "No operating hours available"]
        ELSE [isOpen |-> isOpen,
              openTime |-> minutesToTime(minOpenMinutes),
              closeTime |-> minutesToTime(maxCloseMinutes),
              currentTime |-> getResortLocalTime(timezone),
              reason |-> IF isOpen THEN "Within operating hours"
                         ELSE "Outside operating hours"]

\* getLiftOperatingWindow(lifts, timezone)
getLiftOperatingWindow(liftList, timezone) ==
    LET openTimes == TimesInMinutes([i \in 1..Len(liftList) |-> liftList[i].OpenTime])
        closeTimes == TimesInMinutes([i \in 1..Len(liftList) |-> liftList[i].CloseTime])
        minOpenMinutes == CHOOSE m \in openTimes : \A o \in openTimes : m <= o
        maxCloseMinutes == CHOOSE m \in closeTimes : \A c \in closeTimes : m >= c
        currentMinutes == timeToMinutes(getResortLocalTime(timezone))
        isOpen == currentMinutes >= minOpenMinutes /\ currentMinutes <= maxCloseMinutes
    IN  IF Len(liftList) = 0
        THEN [isOpen |-> FALSE, reason |-> "No lift data available"]
        ELSE IF openTimes = {} \/ closeTimes = {}
        THEN [isOpen |-> FALSE, reason |-> "No operating hours available"]
        ELSE [isOpen |-> isOpen,
              openTime |-> minutesToTime(minOpenMinutes),
              closeTime |-> minutesToTime(maxCloseMinutes),
              currentTime |-> getResortLocalTime(timezone),
              reason |-> IF isOpen THEN "Within operating hours"
                         ELSE "Outside operating hours"]

\* the lifts of a feed: with or without an opening and a closing time
LiftSchedules ==
    [Name : {"Gondola"}, OpenTime : {<<>>, <<<<8, 0>>>>, <<<<8, 30>>>>},
     CloseTime : {<<>>, <<<<16, 0>>>>, <<<<15, 30>>>>}]

\* instants of 2025-01-10 around the ends of the windows in the zone of
\* keystone: 07:59, 08:00, 08:29, 15:31, 16:00, 16:01
LiftInstants ==
    {DayOfDate(20250110) * MinutesPerDay + (t[1] + 7) * 60 + t[2] :
        t \in {<<7, 59>>, <<8, 0>>, <<8, 29>>, <<15, 31>>, <<16, 0>>, <<16, 1>>}}

LiftKeys == {"keystone", "stowe"}

\* lift-scraper.js computes the operating window of a resort
GetLiftOperatingWindow ==
    /\ \E resortKey \in LiftKeys :
          liftWindow' = <<[resortKey |-> resortKey]
                           @@ getLiftOperatingWindow(lifts, RESORTS[resortKey].timezone)>>
    /\ UNCHANGED <<now, config, RESORTS, asyncVars, schedVars, dbVars, seasonCheck, statVars, lifts,
                   poller>>

InitLift ==
    /\ now \in LiftInstants
    /\ config = Schedule
    /\ IdleAsync
    /\ RESORTS = ResortConfig
    /\ IdleSched /\ IdleDb /\ IdleSeason /\ IdleStats
    /\ lifts \in UNION {[1..n -> LiftSchedules] : n \in 0..MaxLifts}
    /\ liftWindow = <<>>
    /\ poller = [pc |-> "idle"]

NextLift == GetLiftOperatingWindow

SpecLift == InitLift /\ [][NextLift]_vars

\* a time 'HH:mm' is not after another
NotAfter(p, q) == p[1] < q[1] \/ (p[1] = q[1] /\ p[2] <= q[2])

OpenTimesOf(liftList) ==
    {liftList[i].OpenTime[1] : i \in {j \in 1..Len(liftList) : liftList[j].OpenTime # <<>>}}

CloseTimesOf(liftList) ==
    {liftList[i].CloseTime[1] : i \in {j \in 1..Len(liftList) : liftList[j].CloseTime # <<>>}}

\* C10: for a non-empty list of lifts with at least one open time and one
\* close time, the window opens at the earliest open time and closes at the
\* latest close time, and the resort is open exactly when the resort-local time
\* is in the window, both ends included; open times 08:00 and 08:30 with close
\* times 16:00 and 15:30 give 08:00 to 16:00; without an open time or without a
\* close time the resort is not open, for the reason 'No operating hours
\* available'
C10_OperatingWindow ==
    \A i \in 1..Len(liftWindow) :
        LET w == liftWindow[i]
            opens == OpenTimesOf(lifts)
            closes == CloseTimesOf(lifts)
            local == (now + RESORTS[w.resortKey].timezone * 60) % 1440
            t == <<local \div 60, local % 60>>
        IN  lifts # <<>> =>
               IF opens # {} /\ closes # {}
               THEN /\ w.openTime \in opens /\ \A p \in opens : NotAfter(w.openTime, p)
                    /\ w.closeTime \in closes /\ \A p \in closes : NotAfter(p, w.closeTime)
                    /\ w.isOpen <=> (NotAfter(w.openTime, t) /\ NotAfter(t, w.closeTime))
                    /\ (opens = {<<8, 0>>, <<8, 30>>} /\ closes = {<<16, 0>>, <<15, 30>>})
                          => (w.openTime = <<8, 0>> /\ w.closeTime = <<16, 0>>)
               ELSE ~w.isOpen /\ w.reason = "No operating hours available"

\* C10: the window of lifts that open at 08:00 and 08:30 and close at 15:30 and
\* 16:00 was computed at 16:00 resort-local time, and the resort is open
C10_ClosingMinuteWitness ==
    /\ liftWindow # <<>>
    /\ OpenTimesOf(lifts) = {<<8, 0>>, <<8, 30>>}
    /\ CloseTimesOf(lifts) = {<<16, 0>>, <<15, 30>>}
    /\ liftWindow[1].isOpen
    /\ liftWindow[1].currentTime = <<16, 0>>
    /\ liftWindow[1].closeTime = <<16, 0>>

(***************************************************************************)
(* The poll specification: processResort of lift-scraper.js.  The lift log *)
(* data/{resort}/lifts/{date}.ndjson is the sequence of its lines.  The    *)
(* extraction and the appends take place at one reading of the clock.      *)
(***************************************************************************)
\* config.resorts of the poll specification: a resort with its terrain page,
\* one with no page at all, one with the page under the legacy url field, one
\* out of season
PollResortConfig ==
    [keystone |-> [key |-> "keystone", timezone |-> 0 - 7, terrainUrl |-> TRUE,
                   url |-> FALSE, snowReportUrl |-> TRUE, seasonStart |-> <<>>,
                   seasonEnd |-> <<>>, targetHour |-> <<>>],
     hakuba |-> [key |-> "hakuba", timezone |-> 9, terrainUrl |-> FALSE,
                 url |-> FALSE, snowReportUrl |-> TRUE, seasonStart |-> <<>>,
                 seasonEnd |-> <<>>, targetHour |-> <<>>],
     stowe |-> [key |-> "stowe", timezone |-> 0 - 5, terrainUrl |-> FALSE,
                url |-> TRUE, snowReportUrl |-> TRUE, seasonStart |-> <<>>,
                seasonEnd |-> <<>>, targetHour |-> <<>>],
     perisher |-> [key |-> "perisher", timezone |-> 10, terrainUrl |-> TRUE,
                   url |-> FALSE, snowReportUrl |-> TRUE, seasonStart |-> <<6, 1>>,
                   seasonEnd |-> <<1, 5>>, targetHour |-> <<>>]]

\* a lift of FR.TerrainStatusFeed.Lifts
PollLift(name, status, open, close) ==
    [Name |-> name, Status |-> status, OpenTime |-> open, CloseTime |-> close]

\* what scrapeLiftData does: it throws, returns null, returns no lift, or
\* returns lifts, with or without operating hours
LiftOutcomes ==
    {[kind |-> "throw"], [kind |-> "null"],
     [kind |-> "data", Lifts |-> <<>>],
     [kind |-> "data", Lifts |-> <<PollLift("Gondola", "Open", <<<<8, 0>>>>, <<<<16, 0>>>>)>>],
     [kind |-> "data", Lifts |-> <<PollLift("Gondola", "Open", <<<<8, 0>>>>, <<<<16, 0>>>>),
                                   PollLift("Express", "Closed", <<<<8, 30>>>>, <<<<15, 30>>>>)>>],
     [kind |-> "data", Lifts |-> <<PollLift("Gondola", "Closed", <<>>, <<>>)>>]}

LogPath(resortKey, localDate) == <<resortKey, "lifts", localDate>>

\* a mutant: the record is written over the file
appendLiftRecord_Overwrite(fs, resortKey, localDate, record) ==
    (<<resortKey, "lifts", localDate>> :> <<record>>) @@ fs

\* appendLiftRecord(resortKey, localDate, record): fs.appendFileSync creates
\* the file when it is not there
appendLiftRecord(fs, resortKey, localDate, record) ==
    LET filePath == LogPath(resortKey, localDate)
    IN  (filePath :> Append(IF filePath \in DOMAIN fs THEN fs[filePath] ELSE <<>>, record))
           @@ fs

\* the loop of processResort over liftData.Lifts
RECURSIVE appendLiftRecords(_, _, _, _)
appendLiftRecords(fs, resortKey, localDate, recs) ==
    IF recs = <<>> THEN fs
    ELSE appendLiftRecords(appendLiftRecord(fs, resortKey, localDate, Head(recs)),
                           resortKey, localDate, Tail(recs))

\* the record processResort builds for a lift
LiftRecord(resortKey, lift) ==
    [timestamp |-> now,
     localTime |-> getResortLocalTime(RESORTS[resortKey].timezone),
     resort |-> resortKey,
     name |-> lift.Name,
     status |-> lift.Status,
     openTime |-> lift.OpenTime,
     closeTime |-> lift.CloseTime]

\* a mutant: the lifts are recorded whatever the operating window
processResort_IgnoresWindow(fs, resortKey, outcome) ==
    IF resortKey \notin DOMAIN RESORTS THEN [files |-> fs, result |-> <<>>]
    ELSE IF ~liftIsResortInSeason(RESORTS[resortKey])
    THEN [files |-> fs, result |-> <<[status |-> "out_of_season", liftsRecorded |-> 0]>>]
    ELSE IF ~(RESORTS[resortKey].terrainUrl \/ RESORTS[resortKey].url)
    THEN [files |-> fs, result |-> <<[status |-> "no_url", liftsRecorded |-> 0]>>]
    ELSE IF outcome.kind = "throw"
    THEN [files |-> fs, result |-> <<[status |-> "scrape_error", liftsRecorded |-> 0]>>]
    ELSE IF outcome.kind = "null" \/ Len(outcome.Lifts) = 0
    THEN [files |-> fs, result |-> <<[status |-> "no_data", liftsRecorded |-> 0]>>]
    ELSE [files |-> appendLiftRecords(fs, resortKey,
                       getResortLocalDate(RESORTS[resortKey].timezone),
                       [i \in 1..Len(outcome.Lifts) |-> LiftRecord(resortKey, outcome.Lifts[i])]),
          result |-> <<[status |-> "success", liftsRecorded |-> Len(outcome.Lifts)]>>]

\* processResort(resortKey), given what scrapeLiftData does: the files after
\* it and the result it returns (null, the empty sequence, for an unknown key)
processResort(fs, resortKey, outcome) ==
    IF resortKey \notin DOMAIN RESORTS THEN [files |-> fs, result |-> <<>>]
    ELSE IF ~liftIsResortInSeason(RESORTS[resortKey])
    THEN [files |-> fs, result |-> <<[status |-> "out_of_season", liftsRecorded |-> 0]>>]
    ELSE IF ~(RESORTS[resortKey].terrainUrl \/ RESORTS[resortKey].url)
    THEN [files |-> fs, result |-> <<[status |-> "no_url", liftsRecorded |-> 0]>>]
    ELSE IF outcome.kind = "throw"
    THEN [files |-> fs, result |-> <<[status |-> "scrape_error", liftsRecorded |-> 0]>>]
    ELSE IF outcome.kind = "null" \/ Len(outcome.Lifts) = 0
    THEN [files |-> fs, result |-> <<[status |-> "no_data", liftsRecorded |-> 0]>>]
    ELSE IF ~getLiftOperatingWindow(outcome.Lifts, RESORTS[resortKey].timezone).isOpen
    THEN [files |-> fs, result |-> <<[status |-> "outside_hours", liftsRecorded |-> 0]>>]
    ELSE [files |-> appendLiftRecords(fs, resortKey,
                       getResortLocalDate(RESORTS[resortKey].timezone),
                       [i \in 1..Len(outcome.Lifts) |-> LiftRecord(resortKey, outcome.Lifts[i])]),
          result |-> <<[status |-> "success", liftsRecorded |-> Len(outcome.Lifts)]>>]

\* process.argv of a poll: a resort of the configuration, or a key that is not
PollArgs == ResortKeys \cup {"nowhere"}

\* instants of 2025-01-10 in the zone of keystone: 07:59, 08:00, 16:00, 16:01
PollInstants ==
    {DayOfDate(20250110) * MinutesPerDay + (t[1] + 7) * 60 + t[2] :
        t \in {<<7, 59>>, <<8, 0>>, <<16, 0>>, <<16, 1>>}}

\* the number of lines of all the lift logs
RECURSIVE LogLines(_, _)
LogLines(fs, paths) ==
    IF paths = {} THEN 0
    ELSE LET p == CHOOSE q \in paths : TRUE
         IN  Len(fs[p]) + LogLines(fs, paths \ {p})

\* lift-scraper.js processes a resort
ProcessResort ==
    /\ LogLines(files, DOMAIN files) < MaxLogLines
    /\ \E resortKey \in PollArgs, outcome \in LiftOutcomes :
          \E done \in {processResort(files, resortKey, outcome)} :
             /\ files' = done.files
             /\ runLog' = [op |-> "poll", resortKey |-> resortKey, outcome |-> outcome,
                           result |-> done.result]
    /\ UNCHANGED <<now, config, RESORTS, asyncVars, snowLatest, latestJson, latestSnowJson,
                   indexJson, dbVars, pc, resortsToCheck, scrapedData, scrapedCount,
                   skippedCount, seasonCheck, statVars, liftVars>>

InitPoll ==
    /\ now \in PollInstants
    /\ config = Schedule
    /\ IdleAsync
    /\ RESORTS = PollResortConfig
    /\ IdleSched /\ IdleDb /\ IdleSeason /\ IdleStats /\ IdleLifts

\* a day passes between two polls
PollNextDay ==
    /\ \A t \in PollInstants : now < t + MaxPollDays * MinutesPerDay
    /\ now' = now + MinutesPerDay
    /\ runLog' = NoLog
    /\ UNCHANGED <<config, RESORTS, asyncVars, files, snowLatest, latestJson, latestSnowJson,
                   indexJson, dbVars, pc, resortsToCheck, scrapedData, scrapedCount,
                   skippedCount, seasonCheck, statVars, liftVars>>

NextPoll == ProcessResort \/ PollNextDay

SpecPoll == InitPoll /\ [][NextPoll]_vars

\* C11: a poll of a configured resort appends to the lift log only when the
\* resort is in season, has a terrain page, the extraction returned at least
\* one lift and the operating window is open; it then appends one line per
\* lift, in order, to the log of the resort-local date and reports that number;
\* in every other case no file changes and the number reported is 0
C11_RecordsOnlyWhenOpen ==
    [][runLog'.op = "poll" /\ runLog'.resortKey \in ResortKeys =>
        LET key == runLog'.resortKey
            resort == RESORTS[key]
            out == runLog'.outcome
            lifted == IF out.kind = "data" THEN out.Lifts ELSE <<>>
            local == (now + resort.timezone * 60) % 1440
            opens == {timeToMinutes(t) : t \in OpenTimesOf(lifted)}
            closes == {timeToMinutes(t) : t \in CloseTimesOf(lifted)}
            open == /\ opens # {} /\ closes # {}
                    /\ \E o \in opens : o <= local
                    /\ \E c \in closes : local <= c
            recording == /\ liftIsResortInSeason(resort)
                       /\ (resort.terrainUrl \/ resort.url)
                       /\ Len(lifted) >= 1
                       /\ open
            path == <<key, "lifts", FormatDate((now + resort.timezone * 60) \div 1440)>>
            before == IF path \in DOMAIN files THEN files[path] ELSE <<>>
        IN  IF recording
            THEN /\ runLog'.result[1].liftsRecorded = Len(lifted)
                 /\ DOMAIN files' = DOMAIN files \cup {path}
                 /\ \A p \in DOMAIN files : p # path => files'[p] = files[p]
                 /\ Len(files'[path]) = Len(before) + Len(lifted)
                 /\ SubSeq(files'[path], 1, Len(before)) = before
                 /\ \A i \in 1..Len(lifted) :
                       /\ files'[path][Len(before) + i].name = lifted[i].Name
                       /\ files'[path][Len(before) + i].resort = key
            ELSE /\ files' = files
                 /\ runLog'.result[1].liftsRecorded = 0]_vars

\* C11: a poll at the closing minute appended the two lifts it was given to a
\* log that already had a line, and another poll recorded nothing
C11_AppendedWitness ==
    /\ runLog.op = "poll"
    /\ runLog.result # <<>>
    /\ runLog.result[1].status = "success"
    /\ runLog.result[1].liftsRecorded = 2
    /\ \E p \in DOMAIN files : p[1] = runLog.resortKey /\ Len(files[p]) = 3
    /\ getResortLocalTime(RESORTS[runLog.resortKey].timezone) = <<16, 0>>

\* C12: the index a run writes lists, for every configured resort that has a
\* terrain directory, every snapshot of that directory, whichever run wrote it,
\* newest first without repetition; latest is the first entry and count the
\* number of entries
C12_IndexIsFullRescan ==
    [][runLog'.op = "summary" /\ Len(runLog'.results) > 0 =>
        /\ indexJson' # <<>>
        /\ DOMAIN indexJson'[1] = {k \in ResortKeys : TerrainDates(files', k) # {}}
        /\ \A k \in DOMAIN indexJson'[1] :
              LET entry == indexJson'[1][k]
              IN  /\ {entry.files[i] : i \in 1..Len(entry.files)} = TerrainDates(files', k)
                  /\ \A i \in 1..Len(entry.files) - 1 : entry.files[i] > entry.files[i + 1]
                  /\ entry.count = Len(entry.files)
                  /\ entry.latest = (IF Len(entry.files) = 0 THEN <<>>
                                     ELSE <<entry.files[1]>>)]_vars

\* C12: a run that wrote no terrain snapshot of a resort has listed the two
\* snapshots earlier runs left for it
C12_EarlierRunsWitness ==
    /\ runLog.op = "summary"
    /\ indexJson # <<>>
    /\ \E k \in DOMAIN indexJson[1] :
          /\ indexJson[1][k].count = 2
          /\ indexJson[1][k].files[1] > indexJson[1][k].files[2]
          /\ \A i \in 1..Len(runLog.results) :
                runLog.results[i].resortKey = k => runLog.results[i].terrain = <<>>
    /\ Len(runLog.results) > 0

\* C13: when the extraction of one kind throws or returns null for a resort,
\* no snapshot of that resort and kind is created and the resort is still
\* eligible for that kind afterwards; the other kind is saved when its own
\* extraction succeeded, nothing else is written, and the loop goes on with
\* the remaining resorts
C13_FailureIsLocal ==
    /\ [][runLog'.op = "scrape" =>
            LET key == runLog'.status.resortKey
            IN  /\ \A kind \in DataTypes :
                      runLog'[kind] \in {"throw", "null"} =>
                         \A p \in DOMAIN files' :
                            p[1] = key /\ p[2] = kind => p \in DOMAIN files
                /\ \A kind \in DataTypes :
                      runLog'[kind] = "data" =>
                         SnapshotPath(key, kind, getTodayDate) \in DOMAIN files'
                /\ \A p \in DOMAIN files' : p \notin DOMAIN files => p[1] = key
                /\ \A p \in DOMAIN files :
                      p \in DOMAIN files' /\ (p[1] # key => files'[p] = files[p])
                /\ pc' = "loop"
                /\ resortsToCheck' = Tail(resortsToCheck)]_vars
    /\ [](runLog.op = "scrape" =>
            \A kind \in DataTypes :
               runLog[kind] \in {"throw", "null"} =>
                  shouldScrapeResort(runLog.status.resortKey, kind))

\* C13: the terrain extraction of a resort failed, its snow report was saved,
\* the resort is still eligible for terrain, and a resort is left to process
C13_OtherKindSavedWitness ==
    /\ runLog.op = "scrape"
    /\ runLog.terrain \in {"throw", "null"}
    /\ runLog.snow = "data"
    /\ SnapshotPath(runLog.status.resortKey, "snow", getTodayDate) \in runLog.written
    /\ shouldScrapeResort(runLog.status.resortKey, "terrain")
    /\ resortsToCheck # <<>>
    /\ pc = "loop"

(***************************************************************************)
(* The report specification: main() of ski-scraper.js with a resort whose  *)
(* scraping window ends during the hours checked, and a resort without any *)
(* page.                                                                   *)
(***************************************************************************)
ReportResortConfig ==
    [keystone |-> [key |-> "keystone", timezone |-> 0 - 7, terrainUrl |-> TRUE,
                   url |-> FALSE, snowReportUrl |-> TRUE, seasonStart |-> <<>>,
                   seasonEnd |-> <<>>, targetHour |-> <<12>>],
     hakuba |-> [key |-> "hakuba", timezone |-> 9, terrainUrl |-> FALSE,
                 url |-> FALSE, snowReportUrl |-> FALSE, seasonStart |-> <<>>,
                 seasonEnd |-> <<>>, targetHour |-> <<0>>],
     stowe |-> [key |-> "stowe", timezone |-> 0 - 5, terrainUrl |-> TRUE,
                url |-> FALSE, snowReportUrl |-> FALSE, seasonStart |-> <<>>,
                seasonEnd |-> <<>>, targetHour |-> <<>>],
     perisher |-> [key |-> "perisher", timezone |-> 10, terrainUrl |-> TRUE,
                   url |-> FALSE, snowReportUrl |-> TRUE, seasonStart |-> <<6, 1>>,
                   seasonEnd |-> <<1, 5>>, targetHour |-> <<>>]]

InitReport ==
    /\ now = StartInstant
    /\ config = Schedule
    /\ IdleAsync
    /\ RESORTS = ReportResortConfig
    /\ IdleSched /\ IdleDb /\ IdleSeason /\ IdleStats /\ IdleLifts

SpecReport == InitReport /\ [][Next]_vars

\* C14: a skipped resort is reported with the check that blocks it: a resort
\* in season, past its target hour, with both snapshots of its local date, is
\* reported as already scraped today, inside the scraping window and after
\* it; a resort in season without any page is reported as having no URL
C14_SkipReasonIsBlockingCheck ==
    runLog.op = "skip" =>
        LET status == runLog.status
            resort == RESORTS[status.resortKey]
        IN  /\ (/\ status.inSeason
                /\ resort.terrainUrl /\ resort.snowReportUrl
                /\ status.currentHour >= status.targetHour
                /\ status.terrainScraped /\ status.snowScraped)
               => runLog.reason = "already scraped today"
            /\ (/\ status.inSeason
                /\ ~resort.terrainUrl /\ ~resort.url /\ ~resort.snowReportUrl)
               => runLog.reason = "no URL"

\* C15: the number of resorts the summary of a run reports as scraped is the
\* number of resorts of which the run persisted at least one snapshot; the
\* resorts whose extractions all failed are not among them
C15_ScrapedCountsPersisted ==
    runLog.op = "summary" =>
        runLog.scraped =
            Cardinality({i \in 1..Len(runLog.results) :
                            runLog.results[i].terrain # <<>> \/ runLog.results[i].snow # <<>>})

\* C16: a run for a single resort key that is not configured ends with an
\* exit status that is not zero, having scraped and written nothing
C16_UnknownKeyExitsNonZero ==
    runLog.op = "unknown" =>
        /\ runLog.exitCode # 0
        /\ pc = "idle"
        /\ scrapedData = <<>>

\* C17: a terrain payload that was extracted is saved and its result is
\* recorded for the run, also when it has no grooming areas or an area of it
\* has no trails; a null payload writes nothing and records a null result
C17_PartialPayloadIsRecorded ==
    runLog.op = "scrape" =>
        /\ runLog.terrain = "data" =>
              /\ scrapedData[Len(scrapedData)].terrain # <<>>
              /\ \E p \in runLog.written : p[2] = "terrain"
        /\ runLog.terrain = "null" =>
              /\ scrapedData[Len(scrapedData)].terrain = <<>>
              /\ \A p \in runLog.written : p[2] # "terrain"

\* C18: the season end falls in the year after the season-start year when
\* the end month is before the start month, and in the season-start year
\* otherwise; so a resort whose season does not wrap the year is out of season
\* on a local date after its end date in the season-start year
C18_EndYearFollowsMonths ==
    \A i \in 1..Len(seasonCheck) :
        LET resort == RESORTS[seasonCheck[i].resortKey]
            d == seasonCheck[i].localDate
            start == seasonStartOf(resort)
            end == seasonEndOf(resort)
            startYear == IF (d \div 100) % 100 >= start[1] THEN d \div 10000
                         ELSE d \div 10000 - 1
            endYear == IF end[1] < start[1] THEN startYear + 1 ELSE startYear
            startDate == startYear * 10000 + start[1] * 100 + start[2]
            endDate == endYear * 10000 + end[1] * 100 + end[2]
        IN  /\ seasonCheck[i].ski = (startDate <= d /\ d < endDate)
            /\ seasonCheck[i].lift = (startDate <= d /\ d < endDate)

\* C19: for the same rows, generate-trail-data.js builds the same statistics
\* and the same history as ski-scraper.js, whatever the time zone of the
\* process
C19_GeneratorsAgree ==
    generateTrailDataForResort(records) = generateTrailData(records)

\* C20: once saveResortData has written the dated snapshot of a resort, the
\* store holds rows of that resort and date, also when a write to the store
\* reported an error
C20_SnapshotHasRows ==
    runLog.op = "save" =>
        /\ SnapshotPath(runLog.resortKey, "terrain", runLog.date) \in DOMAIN files
        /\ runLog.resortKey \in DOMAIN dbResorts
        /\ \E r \in terrain_status :
              r.resort_id = dbResorts[runLog.resortKey] /\ r.date = runLog.date

(***************************************************************************)
(* The snow specification: main() of ski-scraper.js with a resort east of  *)
(* UTC that has a snow report, so that its snow report is saved on two     *)
(* dates within the hours checked.                                         *)
(***************************************************************************)
SnowResortConfig ==
    [keystone |-> [key |-> "keystone", timezone |-> 0 - 7, terrainUrl |-> FALSE,
                   url |-> FALSE, snowReportUrl |-> TRUE, seasonStart |-> <<>>,
                   seasonEnd |-> <<>>, targetHour |-> <<16>>],
     hakuba |-> [key |-> "hakuba", timezone |-> 9, terrainUrl |-> FALSE,
                 url |-> FALSE, snowReportUrl |-> TRUE, seasonStart |-> <<>>,
                 seasonEnd |-> <<>>, targetHour |-> <<0>>],
     stowe |-> [key |-> "stowe", timezone |-> 0 - 5, terrainUrl |-> FALSE,
                url |-> FALSE, snowReportUrl |-> FALSE, seasonStart |-> <<>>,
                seasonEnd |-> <<>>, targetHour |-> <<>>],
     perisher |-> [key |-> "perisher", timezone |-> 10, terrainUrl |-> TRUE,
                   url |-> FALSE, snowReportUrl |-> TRUE, seasonStart |-> <<6, 1>>,
                   seasonEnd |-> <<1, 5>>, targetHour |-> <<>>]]

InitSnow ==
    /\ now = StartInstant
    /\ config = Schedule
    /\ IdleAsync
    /\ RESORTS = SnowResortConfig
    /\ IdleSched /\ IdleDb /\ IdleSeason /\ IdleStats /\ IdleLifts

SpecSnow == InitSnow /\ [][Next]_vars

\* the newest date of a set of dates
MaxDate(dates) == CHOOSE d \in dates : \A e \in dates : e <= d

\* C21: a step that saves the snow report of a resort leaves in snow/latest.json
\* the content of the dated snapshot it wrote; and at all times the resorts
\* with a snow/latest.json are the resorts with a dated snow snapshot, and
\* snow/latest.json is the dated snapshot of the newest date
C21_SnowLatestMirrorsNewest ==
    /\ [][runLog'.op = "scrape" =>
            \A p \in runLog'.written :
               p[2] = "snow" => /\ p[1] \in DOMAIN snowLatest'
                                /\ snowLatest'[p[1]] = files'[p]]_vars
    /\ [](/\ DOMAIN snowLatest = {k \in ResortKeys : SnowDates(files, k) # {}}
          /\ \A k \in DOMAIN snowLatest :
                snowLatest[k] = files[SnapshotPath(k, "snow", MaxDate(SnowDates(files, k)))])

\* C21: a resort has snow snapshots of two dates, and its snow/latest.json is
\* the one of the second date
C21_TwoDatesWitness ==
    \E k \in DOMAIN snowLatest :
        /\ Cardinality(SnowDates(files, k)) = 2
        /\ snowLatest[k].date = MaxDate(SnowDates(files, k))
        /\ runLog.op = "scrape" /\ runLog.status.resortKey = k

\* C22: the result a scrape step records for the run holds a terrain (snow)
\* entry exactly when the step saved a terrain (snow) snapshot; and the
\* latest.json written at the end of a run with results has an entry exactly
\* for the resorts with a terrain entry in the results of that run, and
\* latest-snow.json, when it is rewritten, exactly for those with a snow entry
C22_LatestIsRunScoped ==
    /\ [][runLog'.op = "summary" /\ Len(runLog'.results) > 0 =>
            LET results == runLog'.results
            IN  /\ latestJson' # <<>>
                /\ DOMAIN latestJson'[1] =
                      {results[i].resortKey :
                          i \in {j \in 1..Len(results) : results[j].terrain # <<>>}}
                /\ latestSnowJson' # latestSnowJson =>
                      DOMAIN latestSnowJson'[1] =
                         {results[i].resortKey :
                             i \in {j \in 1..Len(results) : results[j].snow # <<>>}}]_vars
    /\ [](runLog.op = "scrape" =>
            \A kind \in DataTypes :
               (scrapedData[Len(scrapedData)][kind] # <<>>)
                  <=> (\E p \in runLog.written : p[2] = kind))

\* C23: every step of the poller keeps every lift log, each with the lines
\* it had, unchanged and in the same positions; the only file that gains
\* lines, or is created, is the log of the polled resort for its local date at
\* the time of the poll
C23_LiftLogAppendOnly ==
    [][/\ \A p \in DOMAIN files :
             /\ p \in DOMAIN files'
             /\ Len(files'[p]) >= Len(files[p])
             /\ SubSeq(files'[p], 1, Len(files[p])) = files[p]
       /\ \A p \in DOMAIN files' :
             (p \notin DOMAIN files \/ files'[p] # files[p]) =>
                /\ runLog'.op = "poll"
                /\ runLog'.resortKey \in ResortKeys
                /\ p = <<runLog'.resortKey, "lifts",
                         FormatDate((now + RESORTS[runLog'.resortKey].timezone * 60)
                                       \div 1440)>>]_vars

\* C23: a resort has the lift logs of two dates, the older one with the line
\* it got the day before, and the poll of today has just added lines to the
\* newer one
C23_TwoDatesWitness ==
    /\ runLog.op = "poll"
    /\ runLog.result # <<>>
    /\ runLog.result[1].status = "success"
    /\ \E p, q \in DOMAIN files :
          /\ p[1] = runLog.resortKey /\ q[1] = runLog.resortKey
          /\ p[3] < q[3]
          /\ Len(files[p]) >= 1
          /\ Len(files[q]) >= 2
          /\ q[3] = getResortLocalDate(RESORTS[runLog.resortKey].timezone)

(***************************************************************************)
(* The batch specification: one run of main() of lift-scraper.js.  The     *)
(* async functions of a batch are all started by batch.map; each settles   *)
(* at its own time, in any order, and what processResort does after its    *)
(* extraction has resolved is synchronous, hence one step.                 *)
(***************************************************************************)
BATCH_SIZE == 5

\* config.resorts, in the order of the file: seven resorts, the fourth out of
\* season
BatchOrder == <<"r1", "r2", "r3", "r4", "r5", "r6", "r7">>

BatchResortConfig ==
    [k \in {BatchOrder[j] : j \in 1..Len(BatchOrder)} |->
        [key |-> k, timezone |-> 0 - 7, terrainUrl |-> TRUE, url |-> FALSE,
         snowReportUrl |-> TRUE,
         seasonStart |-> IF k = "r4" THEN <<6, 1>> ELSE <<>>,
         seasonEnd |-> IF k = "r4" THEN <<1, 5>> ELSE <<>>,
         targetHour |-> <<>>]]

\* 2025-01-10, 10:00 in the zone of the resorts
BatchInstant == DayOfDate(20250110) * MinutesPerDay + 17 * 60

\* getInSeasonResorts().map(r => r.key)
getInSeasonResorts(order) ==
    LET inSeason(k) == liftIsResortInSeason(RESORTS[k])
    IN  SelectSeq(order, inSeason)

\* a mutant: the batch is all the resorts that are left
NextBatch_AllLeft(resortKeys, i) == SubSeq(resortKeys, i + 1, Len(resortKeys))

\* resortKeys.slice(i, i + BATCH_SIZE)
NextBatch(resortKeys, i) ==
    SubSeq(resortKeys, i + 1,
           IF i + BATCH_SIZE < Len(resortKeys) THEN i + BATCH_SIZE ELSE Len(resortKeys))

\* how the processing of a resort of a batch ends: the extraction throws, it
\* returns a lift, or processResort itself throws
BatchOutcomes ==
    {[kind |-> "throw"],
     [kind |-> "data", Lifts |-> <<PollLift("Gondola", "Open", <<<<8, 0>>>>, <<<<16, 0>>>>)>>],
     [kind |-> "crash"]}

\* main, up to the loop
PollerStart ==
    /\ poller.pc = "idle"
    /\ poller' = [pc |-> "loop", resortKeys |-> getInSeasonResorts(BatchOrder), i |-> 0,
                  batch |-> <<>>, results |-> <<>>]
    /\ UNCHANGED <<now, config, RESORTS, asyncVars, schedVars, dbVars, seasonCheck, statVars, lifts,
                   liftWindow>>

\* the loop of main: batch.map starts the processing of every resort of the batch
StartBatch ==
    /\ poller.pc = "loop"
    /\ poller.i < Len(poller.resortKeys)
    /\ poller' = [poller EXCEPT
                    !.pc = "await",
                    !.batch = LET batch == NextBatch(poller.resortKeys, poller.i)
                              IN  [j \in 1..Len(batch) |->
                                     [resortKey |-> batch[j], result |-> <<>>]]]
    /\ UNCHANGED <<now, config, RESORTS, asyncVars, schedVars, dbVars, seasonCheck, statVars, lifts,
                   liftWindow>>

\* the promise of one resort of the batch settles: with the result of
\* processResort, or with the result of the catch when processResort threw
SettleResort ==
    /\ poller.pc = "await"
    /\ \E j \in 1..Len(poller.batch), outcome \in BatchOutcomes :
          /\ poller.batch[j].result = <<>>
          /\ LET key == poller.batch[j].resortKey
                 done == IF outcome.kind = "crash"
                         THEN [files |-> files,
                               result |-> <<[status |-> "error", liftsRecorded |-> 0]>>]
                         ELSE processResort(files, key, outcome)
             IN  /\ files' = done.files
                 /\ poller' = [poller EXCEPT
                                 !.batch[j].result = <<[resortKey |-> key] @@ done.result[1]>>]
    /\ UNCHANGED <<now, config, RESORTS, asyncVars, snowLatest, latestJson, latestSnowJson,
                   indexJson, dbVars, pc, resortsToCheck, scrapedData, scrapedCount,
                   skippedCount, runLog, seasonCheck, statVars, lifts, liftWindow>>

\* await Promise.all(batchPromises); results.push(...batchResults)
EndBatch ==
    /\ poller.pc = "await"
    /\ \A j \in 1..Len(poller.batch) : poller.batch[j].result # <<>>
    /\ poller' = [poller EXCEPT
                    !.pc = "loop",
                    !.i = poller.i + BATCH_SIZE,
                    !.batch = <<>>,
                    !.results = poller.results \o
                                   [j \in 1..Len(poller.batch) |-> poller.batch[j].result[1]]]
    /\ UNCHANGED <<now, config, RESORTS, asyncVars, schedVars, dbVars, seasonCheck, statVars, lifts,
                   liftWindow>>

\* main, after the loop: the final summary
PollerFinish ==
    /\ poller.pc = "loop"
    /\ poller.i >= Len(poller.resortKeys)
    /\ poller' = [poller EXCEPT !.pc = "done"]
    /\ UNCHANGED <<now, config, RESORTS, asyncVars, schedVars, dbVars, seasonCheck, statVars, lifts,
                   liftWindow>>

InitBatch ==
    /\ now = BatchInstant
    /\ config = Schedule
    /\ IdleAsync
    /\ RESORTS = BatchResortConfig
    /\ IdleSched /\ IdleDb /\ IdleSeason /\ IdleStats /\ IdleLifts

NextBatchRun == PollerStart \/ StartBatch \/ SettleResort \/ EndBatch \/ PollerFinish

SpecBatch == InitBatch /\ [][NextBatchRun]_vars

\* the resorts of the batch whose processing has not settled
InFlight == {j \in 1..Len(poller.batch) : poller.batch[j].result = <<>>}

\* C24: at most 5 resorts are in flight; the resorts of the batches so far
\* are the in-season resorts in their order, each once; when the run is done
\* there is one result for every in-season resort, in that order; a resort
\* recorded as a success has its one line in its log and every other resort
\* has no log
C24_BatchesOfFive ==
    poller.pc # "idle" =>
        LET inSeason == SelectSeq(BatchOrder,
                                  LAMBDA k : liftIsResortInSeason(RESORTS[k]))
            settled == poller.results \o
                          [j \in 1..Len(poller.batch) |->
                              IF poller.batch[j].result = <<>>
                              THEN [resortKey |-> poller.batch[j].resortKey,
                                    status |-> "running", liftsRecorded |-> 0]
                              ELSE poller.batch[j].result[1]]
        IN  /\ Cardinality(InFlight) <= 5
            /\ Len(settled) <= Len(inSeason)
            /\ \A j \in 1..Len(settled) : settled[j].resortKey = inSeason[j]
            /\ poller.pc = "done" => Len(poller.results) = Len(inSeason)
            /\ \A j \in 1..Len(settled) :
                  LET log == {p \in DOMAIN files : p[1] = settled[j].resortKey}
                  IN  IF settled[j].status = "success"
                      THEN \E p \in log : log = {p} /\ Len(files[p]) = 1
                                                    /\ settled[j].liftsRecorded = 1
                      ELSE log = {} /\ settled[j].liftsRecorded = 0

\* C24: the run is done; the processing of the first resort threw and is
\* recorded as an error, another resort of its batch and the resort of the
\* second batch were recorded as successes
C24_ErrorIsolatedWitness ==
    /\ poller.pc = "done"
    /\ Len(poller.results) = 6
    /\ poller.results[1].status = "error"
    /\ poller.results[2].status = "success"
    /\ poller.results[6].status = "success"
    /\ poller.results[6].resortKey = "r7"

(***************************************************************************)
(* The write specification: the saves of ski-scraper.js with the write of  *)
(* the dated snapshot, fs.writeFileSync(file, text), taken as what it is:  *)
(* the file is opened, which creates or empties it, and then the text is   *)
(* written.  The process may be ended between the two.                     *)
(***************************************************************************)
\* the content of a file that was opened for writing and not written yet
Truncated == [truncated |-> TRUE]

\* saveResortData / saveSnowData, data not null, up to the opening of the
\* dated file by fs.writeFileSync
BeginWrite ==
    /\ pc = "idle"
    /\ \E key \in ResortKeys, kind \in {"terrain", "snow"} :
          /\ shouldScrapeResort(key, kind)
          /\ files' = WriteFile(files, SnapshotPath(key, kind, getTodayDate), Truncated)
          /\ runLog' = [op |-> "write", resortKey |-> key, kind |-> kind,
                        date |-> getTodayDate]
    /\ pc' = "writing"
    /\ UNCHANGED <<now, config, RESORTS, asyncVars, snowLatest, latestJson, latestSnowJson,
                   indexJson, dbVars, resortsToCheck, scrapedData, scrapedCount,
                   skippedCount, seasonCheck, statVars, liftVars>>

\* the text is written and the save goes on to its end
EndWrite ==
    /\ pc = "writing"
    /\ LET key == runLog.resortKey
           path == SnapshotPath(key, runLog.kind, runLog.date)
           clean == cleanSnowData(key, SchedSnowReport)
           resorts1 == getOrCreateResort(dbResorts, key)
       IN  /\ dbResorts' = resorts1
           /\ IF runLog.kind = "terrain"
              THEN /\ files' = WriteFile(files, path, SchedFeed)
                   /\ terrain_status' = saveResortDataToDatabase(terrain_status,
                                            resorts1[key], runLog.date, SchedFeed)
                   /\ UNCHANGED <<snowLatest, snow_conditions>>
              ELSE /\ files' = WriteFile(files, path, clean)
                   /\ snowLatest' = snowLatestAfterSave(snowLatest, key, clean)
                   /\ snow_conditions' = saveSnowConditions(snow_conditions, resorts1[key],
                                             runLog.date, snowDataForDb(clean))
                   /\ UNCHANGED terrain_status
    /\ pc' = "idle"
    /\ runLog' = NoLog
    /\ UNCHANGED <<now, config, RESORTS, asyncVars, latestJson, latestSnowJson, indexJson,
                   resortsToCheck, scrapedData, scrapedCount, skippedCount, seasonCheck,
                   statVars, liftVars>>

\* the process is ended while the file is open
Interrupt ==
    /\ pc = "writing"
    /\ pc' = "idle"
    /\ runLog' = NoLog
    /\ UNCHANGED <<now, config, RESORTS, asyncVars, files, snowLatest, latestJson, latestSnowJson,
                   indexJson, dbVars, resortsToCheck, scrapedData, scrapedCount,
                   skippedCount, seasonCheck, statVars, liftVars>>

NextWrite == BeginWrite \/ EndWrite \/ Interrupt \/ Tick

SpecWrite == Init /\ [][NextWrite]_vars

\* C25: a dated snapshot that hasBeenScrapedToday finds is a complete
\* payload, never a file that was opened and not written
C25_SnapshotNeverPartial ==
    \A key \in ResortKeys, kind \in DataTypes :
        hasBeenScrapedToday(key, kind) =>
            files[SnapshotPath(key, kind, getResortLocalDate(RESORTS[key].timezone))]
               # Truncated

\* C26: in the statistics either generator has built, every row is counted
\* under the weekday of its calendar date (2024-01-01 was a Monday), whatever
\* the zone of the process: for each weekday the total and the groomed count
\* are those of the rows of that weekday, groomed <= total, and the percentage
\* is the rounded share, 0 without rows
C26_WeekdayOfCalendarDate ==
    \A built \in Built :
        \A d \in 1..7 :
            LET mine == {i \in 1..Len(records) :
                            (DayOfDate(records[i].date) + 1) % 7 = d - 1}
                groomed == {i \in mine : records[i].grooming_status # Null}
                entry == built.stats.dayOfWeek[d]
            IN  /\ entry.total = Cardinality(mine)
                /\ entry.groomed = Cardinality(groomed)
                /\ entry.groomed <= entry.total
                /\ entry.percentage =
                      (IF entry.total = 0 THEN 0
                       ELSE (200 * entry.groomed + entry.total) \div (2 * entry.total))

(***************************************************************************)
(* The trail files specification: generateTrailData and generateTrailsIndex *)
(* of ski-scraper.js (generate-trail-data.js has the same slug, file and   *)
(* index code).  A trail name is the sequence of its characters.           *)
(***************************************************************************)
\* String.prototype.toLowerCase, character by character
toLowerCase(name) ==
    [i \in 1..Len(name) |->
        IF name[i] = "A" THEN "a" ELSE IF name[i] = "B" THEN "b" ELSE name[i]]

\* the characters of the class [\w\s-]
IsWordSpaceOrHyphen(c) == c \in {"a", "b", "A", "B", "_", " ", "-"}

\* replace(/\s+/g, '-'): every run of spaces becomes one hyphen
RECURSIVE SpacesToHyphen(_)
SpacesToHyphen(name) ==
    IF name = <<>> THEN <<>>
    ELSE IF Head(name) = " "
         THEN IF Len(name) > 1 /\ name[2] = " " THEN SpacesToHyphen(Tail(name))
              ELSE <<"-">> \o SpacesToHyphen(Tail(name))
         ELSE <<Head(name)>> \o SpacesToHyphen(Tail(name))

\* replace(/--+/g, '-'): every run of hyphens becomes one hyphen
RECURSIVE CollapseHyphens(_)
CollapseHyphens(name) ==
    IF name = <<>> THEN <<>>
    ELSE IF Head(name) = "-" /\ Len(name) > 1 /\ name[2] = "-"
         THEN CollapseHyphens(Tail(name))
         ELSE <<Head(name)>> \o CollapseHyphens(Tail(name))

\* String.prototype.trim
RECURSIVE trim(_)
trim(name) ==
    IF name = <<>> THEN <<>>
    ELSE IF Head(name) = " " THEN trim(Tail(name))
    ELSE IF name[Len(name)] = " " THEN trim(SubSeq(name, 1, Len(name) - 1))
    ELSE name

\* slugifyTrailName(name)
slugifyTrailName(name) ==
    trim(CollapseHyphens(SpacesToHyphen(
        SelectSeq(toLowerCase(name), IsWordSpaceOrHyphen))))

\* sanitizeTrailName(name): the pagination text it removes holds digits, which
\* no name here has; what is left is the trim
sanitizeTrailName(name) == trim(name)

\* the order of Array.prototype.sort() on file names: by code unit
CodeUnit(c) ==
    CASE c = " " -> 32 [] c = "'" -> 39 [] c = "-" -> 45 [] c = "A" -> 65
      [] c = "B" -> 66 [] c = "_" -> 95 [] c = "a" -> 97 [] c = "b" -> 98

\* the order of String.prototype.localeCompare: the letters after the space
\* and the punctuation, a letter's two cases together, and the lower case first
\* between strings that differ in case only
PrimaryWeight(c) ==
    CASE c = " " -> 1 [] c = "_" -> 2 [] c = "-" -> 3 [] c = "'" -> 4
      [] c \in {"a", "A"} -> 5 [] c \in {"b", "B"} -> 6

TertiaryWeight(c) == IF c \in {"A", "B"} THEN 1 ELSE 0

\* -1, 0 or 1: the lexicographic comparison of two sequences of integers
RECURSIVE SeqCompare(_, _)
SeqCompare(x, y) ==
    IF x = <<>> THEN (IF y = <<>> THEN 0 ELSE 0 - 1)
    ELSE IF y = <<>> THEN 1
    ELSE IF Head(x) < Head(y) THEN 0 - 1
    ELSE IF Head(x) > Head(y) THEN 1
    ELSE SeqCompare(Tail(x), Tail(y))

localeCompare(a, b) ==
    LET primary == SeqCompare([i \in 1..Len(a) |-> PrimaryWeight(a[i])],
                              [i \in 1..Len(b) |-> PrimaryWeight(b[i])])
    IN  IF primary # 0 THEN primary
        ELSE SeqCompare([i \in 1..Len(a) |-> TertiaryWeight(a[i])],
                        [i \in 1..Len(b) |-> TertiaryWeight(b[i])])

fileNameCompare(a, b) ==
    SeqCompare([i \in 1..Len(a) |-> CodeUnit(a[i])],
               [i \in 1..Len(b) |-> CodeUnit(b[i])])

\* data/{resort}/trails/data/{slug}.json and data/{resort}/trails/index.json
TrailFile(resortKey, trailSlug) == <<resortKey, "trails", trailSlug>>
TrailsIndexFile(resortKey) == <<resortKey, "trailsIndex", <<>>>>

\* readdirSync(trailsDataDir).filter(f => f.endsWith('.json')).sort()
RECURSIVE SortFileNames(_)
SortFileNames(slugs) ==
    IF slugs = {} THEN <<>>
    ELSE LET first == CHOOSE a \in slugs :
                         \A b \in slugs : fileNameCompare(a, b) <= 0
         IN  <<first>> \o SortFileNames(slugs \ {first})

readTrailFiles(fs, resortKey) ==
    SortFileNames({p[3] : p \in {q \in DOMAIN fs :
                                    q[1] = resortKey /\ q[2] = "trails"}})

\* the comparator of the index: by area, then by name
compareIndexEntries(a, b) ==
    IF a.area # b.area THEN localeCompare(a.area, b.area)
    ELSE localeCompare(a.name, b.name)

\* Array.prototype.sort(compareIndexEntries): a stable sort
RECURSIVE InsertIndexEntry(_, _)
InsertIndexEntry(sorted, entry) ==
    IF sorted = <<>> THEN <<entry>>
    ELSE IF compareIndexEntries(entry, Head(sorted)) < 0 THEN <<entry>> \o sorted
    ELSE <<Head(sorted)>> \o InsertIndexEntry(Tail(sorted), entry)

RECURSIVE SortIndexEntries(_)
SortIndexEntries(entries) ==
    IF entries = <<>> THEN <<>>
    ELSE InsertIndexEntry(SortIndexEntries(SubSeq(entries, 1, Len(entries) - 1)),
                          entries[Len(entries)])

\* the entry of one trail file; a file that does not parse is logged and skipped
IndexEntry(trailData) ==
    [name |-> trailData.trailName,
     slug |-> trailData.trailSlug,
     area |-> trailData.area,
     difficulty |-> trailData.difficulty,
     isGroomedToday |-> trailData.currentStatus.isGroomed,
     isOpen |-> trailData.currentStatus.isOpen,
     groomingPercentage |-> trailData.stats.groomingPercentage,
     currentStreak |-> trailData.stats.currentStreak]

RECURSIVE ReadIndexEntries(_, _, _)
ReadIndexEntries(fs, resortKey, trailFiles) ==
    IF trailFiles = <<>> THEN <<>>
    ELSE LET trailData == fs[TrailFile(resortKey, Head(trailFiles))]
         IN  (IF trailData = Truncated THEN <<>> ELSE <<IndexEntry(trailData)>>)
             \o ReadIndexEntries(fs, resortKey, Tail(trailFiles))

\* generateTrailsIndex(resortKey): the files after it has run; the directory
\* of the trail files exists, the generation pass has created it
generateTrailsIndex(fs, resortKey) ==
    LET trailFiles == readTrailFiles(fs, resortKey)
    IN  WriteFile(fs, TrailsIndexFile(resortKey),
                  [resort |-> resortKey,
                   trailCount |-> Len(trailFiles),
                   trails |-> SortIndexEntries(
                                  ReadIndexEntries(fs, resortKey, trailFiles))])

\* the resort whose trail files ski-scraper.js generates
TrailResort == "vail"

\* a trail of the feed, under its area
FeedTrail(name, area, groomed) ==
    [Name |-> name, area |-> area, IsGroomed |-> groomed]

\* the trail data object of one trail of the feed; rows are the rows of the
\* trail in the store
trailData(resortKey, trail, rows) ==
    LET trailName == sanitizeTrailName(trail.Name)
    IN  [trailName |-> trailName,
         trailSlug |-> slugifyTrailName(trailName),
         resort |-> resortKey,
         area |-> trail.area,
         difficulty |-> "Unknown",
         currentStatus |-> [isOpen |-> TRUE, isGroomed |-> trail.IsGroomed],
         stats |-> generateTrailData(rows).stats]

\* the callbacks of the queries write the trail files in the order they arrive
RECURSIVE writeTrailFiles(_, _, _, _)
writeTrailFiles(fs, resortKey, trails, date) ==
    IF trails = <<>> THEN fs
    ELSE LET data == trailData(resortKey, Head(trails),
                               <<StatRow(date, Head(trails).IsGroomed)>>)
         IN  writeTrailFiles(WriteFile(fs, TrailFile(resortKey, data.trailSlug), data),
                             resortKey, Tail(trails), date)

\* the feeds of a pass: some trails, in the order in which the callbacks of
\* their queries arrive
TrailPasses ==
    LET quoted == FeedTrail(<<"a", "'", "b">>, <<"B">>, TRUE)
        plain == FeedTrail(<<"a", "b">>, <<"B">>, FALSE)
        upper == FeedTrail(<<"A">>, <<"B">>, TRUE)
        spaced == FeedTrail(<<"B", " ", "a">>, <<"a">>, FALSE)
        hyphened == FeedTrail(<<"b", "-", "a">>, <<"a">>, TRUE)
    IN  {[trails |-> trails] :
            trails \in {<<quoted, plain>>, <<plain, quoted>>, <<upper, hyphened>>,
                        <<hyphened, upper, plain>>, <<spaced>>, <<upper>>}}

\* generateTrailData(resortKey, resortId, date, terrainData), with the index
\* that its timer generates once the callbacks have written the files
GenerateTrailFiles ==
    /\ \E pass \in TrailPasses :
          /\ files' = generateTrailsIndex(
                          writeTrailFiles(files, TrailResort, pass.trails,
                                          getTodayDate),
                          TrailResort)
          /\ runLog' = [op |-> "trails", completed |-> TRUE] @@ pass
    /\ UNCHANGED <<now, config, RESORTS, asyncVars, snowLatest, latestJson, latestSnowJson,
                   indexJson, dbVars, pc, resortsToCheck, scrapedData,
                   scrapedCount, skippedCount, seasonCheck, statVars, liftVars>>

\* the process is stopped while fs.writeFileSync writes the file of a trail:
\* the files of the trails before it are written, its file is left truncated,
\* and the index is not generated
InterruptTrailFiles ==
    /\ \E pass \in TrailPasses :
          \E k \in 1..Len(pass.trails) :
             /\ files' = WriteFile(
                             writeTrailFiles(files, TrailResort,
                                             SubSeq(pass.trails, 1, k - 1),
                                             getTodayDate),
                             TrailFile(TrailResort,
                                       slugifyTrailName(sanitizeTrailName(
                                           pass.trails[k].Name))),
                             Truncated)
             /\ runLog' = [op |-> "trails", completed |-> FALSE] @@ pass
    /\ UNCHANGED <<now, config, RESORTS, asyncVars, snowLatest, latestJson, latestSnowJson,
                   indexJson, dbVars, pc, resortsToCheck, scrapedData,
                   scrapedCount, skippedCount, seasonCheck, statVars, liftVars>>

NextTrails == GenerateTrailFiles \/ InterruptTrailFiles

SpecTrails == Init /\ [][NextTrails]_vars

(***************************************************************************)
(* Claims about the trail files specification.                             *)
(***************************************************************************)
\* the trail files of the resort that are present
TrailFilesPresent ==
    {p \in DOMAIN files : p[1] = TrailResort /\ p[2] = "trails"}

\* the distinct trails the latest pass has processed
TrailsProcessed ==
    {sanitizeTrailName(runLog.trails[i].Name) : i \in 1..Len(runLog.trails)}

\* C27: after a generation pass the index has one entry per trail file present,
\* each entry is the projection of its file, the entries are in ascending order
\* of area and then of name, and trailCount is the number of entries
C27_IndexMirrorsTrailFiles ==
    (runLog.op = "trails" /\ runLog.completed) =>
        LET index == files[TrailsIndexFile(TrailResort)]
        IN  /\ Len(index.trails) = Cardinality(TrailFilesPresent)
            /\ \A p \in TrailFilesPresent :
                  /\ files[p] # Truncated
                  /\ \E i \in 1..Len(index.trails) :
                        index.trails[i] = IndexEntry(files[p])
            /\ \A i, j \in 1..Len(index.trails) :
                  i < j => compareIndexEntries(index.trails[i], index.trails[j]) <= 0
            /\ index.trailCount = Len(index.trails)

\* C28: after a generation pass every distinct trail of the pass has a file of
\* its own that holds the data of that trail, so as many files were written as
\* distinct trails were processed
C28_OneFilePerTrail ==
    (runLog.op = "trails" /\ runLog.completed) =>
        /\ \A name \in TrailsProcessed :
              /\ TrailFile(TrailResort, slugifyTrailName(name)) \in DOMAIN files
              /\ files[TrailFile(TrailResort, slugifyTrailName(name))].trailName = name
        /\ Cardinality({slugifyTrailName(name) : name \in TrailsProcessed})
              = Cardinality(TrailsProcessed)

(***************************************************************************)
(* Claims about the eligibility check and the extraction.                  *)
(***************************************************************************)
\* C29: a resort whose terrain page is configured under terrainUrl or under
\* url, that is in season, at or past its target hour and without a terrain
\* snapshot of its local date, is eligible for terrain
C29_LegacyUrlIsEligible ==
    \A key \in ResortKeys :
        LET resort == RESORTS[key]
        IN  (/\ resort.terrainUrl \/ resort.url
             /\ isResortInSeason(resort)
             /\ getResortLocalHour(resort.timezone) >= targetHourOf(resort)
             /\ ~hasBeenScrapedToday(key, "terrain"))
            => shouldScrapeResort(key, "terrain")

\* C30: when main scrapes a resort, an extraction of a kind is started only if
\* shouldScrapeResort held for the resort and the kind when the resort was
\* examined: the resort was in season, at or past its target hour, had a URL
\* of the kind and no snapshot of the kind for its local date
C30_ExtractionOnlyWhenEligible ==
    [][(runLog'.op = "scrape" /\ scrapedCount' = scrapedCount + 1) =>
          \A kind \in DataTypes :
             runLog'[kind] # "off" =>
                LET key == Head(resortsToCheck)
                IN  /\ shouldScrapeResort(key, kind)
                    /\ isResortInSeason(RESORTS[key])
                    /\ getResortLocalHour(RESORTS[key].timezone)
                          >= targetHourOf(RESORTS[key])
                    /\ ~hasBeenScrapedToday(key, kind)]_vars

\* a resort with both URLs is scraped for terrain only: its snow snapshot of
\* the local date exists and no snow extraction is started
C30_OtherKindOffWitness ==
    /\ runLog.op = "scrape"
    /\ runLog.terrain # "off"
    /\ runLog.snow = "off"
    /\ \E key \in ResortKeys :
          /\ scrapedData # <<>>
          /\ scrapedData[Len(scrapedData)].resortKey = key
          /\ RESORTS[key].snowReportUrl
          /\ SnapshotPath(key, "snow", getTodayDate) \in DOMAIN files

(***************************************************************************)
(* The database handle specification: the callback chains that              *)
(* saveResortData and saveSnowData of ski-scraper.js start on the shared     *)
(* handle, the timers of importHistoricalData, and closeDatabase.           *)
(***************************************************************************)
\* the saves main can reach in one run, in the order of the loop: the resort
\* whose trail files are generated, then another resort
HandleSaves ==
    <<<<TrailResort, "terrain">>, <<TrailResort, "snow">>,
      <<"keystone", "terrain">>, <<"keystone", "snow">>>>

\* the resorts importHistoricalData walks, each with one terrain file and one
\* snow file
ImportResorts == <<"keystone", "stowe">>

\* the stage a chain enters when it issues its next statement on the handle: a
\* statement issued on a closed handle fails
IssueOn(handle, stage) == IF handle.open THEN stage ELSE "failed"

\* the stage after the callback of a chain has fired
AfterCallback(handle, chain, stage) ==
    IF stage = "resort" THEN IssueOn(handle, "write")
    ELSE IF stage = "write" /\ chain = <<TrailResort, "terrain">>
         THEN IssueOn(handle, "trails")
    ELSE "done"

\* the chains whose callback is still owed
OwedChains(handle) ==
    {c \in DOMAIN handle.chains : handle.chains[c] \in {"resort", "write", "trails"}}

\* saveResortData / saveSnowData: main saves the next snapshot of the loop and
\* getOrCreateResort is queued on the handle, or the kind is not scraped
HandleSave ==
    /\ dbHandle.pc = "scrape"
    /\ dbHandle.todo # <<>>
    /\ \E saved \in BOOLEAN :
          dbHandle' = [dbHandle EXCEPT
             !.todo = Tail(@),
             !.used = @ \/ saved,
             !.chains = IF saved THEN (Head(dbHandle.todo) :> "resort") @@ @ ELSE @]
    /\ UNCHANGED <<now, config, RESORTS, schedVars, dbVars, seasonCheck, statVars,
                   liftVars, trailPass, page>>

\* the callback of a statement fires: of getOrCreateResort, of saveTerrainStatus
\* or saveSnowConditions, or of the queries of generateTrailData
HandleCallback ==
    /\ dbHandle.pc \in {"scrape", "closed"}
    /\ dbHandle.run = "scrape"
    /\ \E c \in OwedChains(dbHandle) :
          dbHandle' = [dbHandle EXCEPT
             !.chains[c] = AfterCallback(dbHandle, c, dbHandle.chains[c])]
    /\ UNCHANGED <<now, config, RESORTS, schedVars, dbVars, seasonCheck, statVars,
                   liftVars, trailPass, page>>

\* the end of main: if (db) closeDatabase(db)
HandleClose ==
    /\ dbHandle.pc = "scrape"
    /\ dbHandle.todo = <<>>
    /\ dbHandle' = [dbHandle EXCEPT
          !.pc = "closed",
          !.open = ~dbHandle.used,
          !.owedAtClose = IF dbHandle.used THEN OwedChains(dbHandle) ELSE {}]
    /\ UNCHANGED <<now, config, RESORTS, schedVars, dbVars, seasonCheck, statVars,
                   liftVars, trailPass, page>>

\* importHistoricalData, the callback of getOrCreateResort for the next resort:
\* the saves of its files are queued and the timer of 500 ms is started
ImportResort ==
    /\ dbHandle.pc = "import"
    /\ dbHandle.todo # <<>>
    /\ dbHandle' = [dbHandle EXCEPT
          !.pc = "timer",
          !.chains = (<<Head(dbHandle.todo), "terrain">> :> "write")
                     @@ (<<Head(dbHandle.todo), "snow">> :> "write") @@ @]
    /\ UNCHANGED <<now, config, RESORTS, schedVars, dbVars, seasonCheck, statVars,
                   liftVars, trailPass, page>>

\* the callback of a save of the import fires and counts its record for the
\* resort
ImportCallback ==
    /\ dbHandle.run = "import"
    /\ \E c \in OwedChains(dbHandle) :
          dbHandle' = [dbHandle EXCEPT
             !.chains[c] = "done",
             !.counted = @ \cup {c}]
    /\ UNCHANGED <<now, config, RESORTS, schedVars, dbVars, seasonCheck, statVars,
                   liftVars, trailPass, page>>

\* the timer of the resort fires: the counts of the resort so far are added to
\* the totals and the promise of the resort is resolved
ImportTimer ==
    /\ dbHandle.pc = "timer"
    /\ dbHandle' = [dbHandle EXCEPT
          !.pc = IF Len(dbHandle.todo) = 1 THEN "wait" ELSE "import",
          !.todo = Tail(@),
          !.totals = @ \cup {c \in dbHandle.counted : c[1] = Head(dbHandle.todo)}]
    /\ UNCHANGED <<now, config, RESORTS, schedVars, dbVars, seasonCheck, statVars,
                   liftVars, trailPass, page>>

\* the timer of 1000 ms after the loop fires: the totals are reported and the
\* handle is closed
ImportFinish ==
    /\ dbHandle.pc = "wait"
    /\ dbHandle' = [dbHandle EXCEPT
          !.pc = "closed",
          !.open = FALSE,
          !.owedAtClose = OwedChains(dbHandle)]
    /\ UNCHANGED <<now, config, RESORTS, schedVars, dbVars, seasonCheck, statVars,
                   liftVars, trailPass, page>>

InitHandle ==
    /\ now = StartInstant
    /\ config = Schedule
    /\ RESORTS = ResortConfig
    /\ IdleSched /\ IdleDb /\ IdleSeason /\ IdleStats /\ IdleLifts
    /\ trailPass = [pc |-> "idle"]
    /\ page = [pc |-> "idle"]
    /\ \E run \in {"scrape", "import"} :
          dbHandle = [pc |-> run, run |-> run, open |-> TRUE, used |-> run = "import",
                      todo |-> IF run = "scrape" THEN HandleSaves
                               ELSE [i \in 1..Len(ImportResorts) |-> ImportResorts[i]],
                      chains |-> <<>>, counted |-> {}, totals |-> {},
                      owedAtClose |-> {}]

NextHandle ==
    \/ HandleSave \/ HandleCallback \/ HandleClose
    \/ ImportResort \/ ImportCallback \/ ImportTimer \/ ImportFinish

SpecHandle == InitHandle /\ [][NextHandle]_vars

\* C31: when the handle is closed every chain of callbacks started during the
\* run has finished, and the totals the import reports count every save
C31_ClosedAfterEveryWrite ==
    dbHandle.pc = "closed" =>
        /\ dbHandle.owedAtClose = {}
        /\ \A c \in DOMAIN dbHandle.chains : dbHandle.chains[c] # "failed"
        /\ dbHandle.run = "import" => dbHandle.totals = DOMAIN dbHandle.chains

(***************************************************************************)
(* The generation pass specification: the query callbacks of one trail      *)
(* generation pass, the timer of generateTrailData (ski-scraper.js) and the  *)
(* counter and promise of generateTrailDataForResort                        *)
(* (generate-trail-data.js).                                                *)
(***************************************************************************)
\* the trails of the passes
PassTrails ==
    {FeedTrail(<<"a", "b">>, <<"B">>, TRUE), FeedTrail(<<"A">>, <<"B">>, FALSE),
     FeedTrail(<<"b", "-", "a">>, <<"a">>, TRUE)}

\* the callback of the query of one trail completes, with the rows or with an
\* error.  ski-scraper.js: an error is logged, rows give the trail file.
\* generate-trail-data.js: both count the trail; the last one to complete
\* resolves the promise, and generates the index first if it has rows
PassCallback ==
    /\ trailPass.pc = "queries"
    /\ \E trail \in trailPass.owed, err \in BOOLEAN :
          LET processedCount == trailPass.processedCount + 1
              last == /\ trailPass.by = "generate-trail-data"
                      /\ processedCount = trailPass.totalTrails
              written == IF err THEN files
                         ELSE writeTrailFiles(files, TrailResort, <<trail>>, getTodayDate)
          IN  /\ files' = (IF last /\ ~err THEN generateTrailsIndex(written, TrailResort)
                           ELSE written)
              /\ trailPass' = [trailPass EXCEPT
                    !.owed = @ \ {trail},
                    !.failed = IF err THEN @ \cup {trail} ELSE @,
                    !.processedCount = processedCount,
                    !.indexRuns = IF last /\ ~err THEN @ + 1 ELSE @,
                    !.owedAtIndex = IF last /\ ~err THEN trailPass.owed \ {trail} ELSE @,
                    !.resolved = IF last THEN @ + 1 ELSE @]
    /\ UNCHANGED <<now, config, RESORTS, snowLatest, latestJson, latestSnowJson,
                   indexJson, dbVars, pc, resortsToCheck, scrapedData, scrapedCount,
                   skippedCount, runLog, seasonCheck, statVars, liftVars, dbHandle,
                   page>>

\* generateTrailData of ski-scraper.js: the timer of 1000 ms fires and the index
\* is generated
PassTimer ==
    /\ trailPass.pc = "queries"
    /\ trailPass.by = "ski-scraper"
    /\ ~trailPass.timerFired
    /\ files' = generateTrailsIndex(files, TrailResort)
    /\ trailPass' = [trailPass EXCEPT
          !.timerFired = TRUE,
          !.indexRuns = @ + 1,
          !.owedAtIndex = trailPass.owed]
    /\ UNCHANGED <<now, config, RESORTS, snowLatest, latestJson, latestSnowJson,
                   indexJson, dbVars, pc, resortsToCheck, scrapedData, scrapedCount,
                   skippedCount, runLog, seasonCheck, statVars, liftVars, dbHandle,
                   page>>

\* a pass over some trails has issued the query of each of them
InitPass ==
    /\ now = StartInstant
    /\ config = Schedule
    /\ RESORTS = ResortConfig
    /\ IdleSched /\ IdleDb /\ IdleSeason /\ IdleStats /\ IdleLifts
    /\ dbHandle = [pc |-> "idle"]
    /\ page = [pc |-> "idle"]
    /\ \E by \in {"ski-scraper", "generate-trail-data"},
          trails \in SUBSET PassTrails \ {{}} :
          trailPass = [pc |-> "queries", by |-> by, trails |-> trails, owed |-> trails,
                       failed |-> {}, totalTrails |-> Cardinality(trails),
                       processedCount |-> 0, timerFired |-> FALSE, indexRuns |-> 0,
                       owedAtIndex |-> {}, resolved |-> 0]

NextPass == PassCallback \/ PassTimer

SpecPass == InitPass /\ [][NextPass]_vars

\* nothing of the pass is left to happen
PassOver ==
    /\ trailPass.pc = "queries"
    /\ trailPass.owed = {}
    /\ trailPass.by = "ski-scraper" => trailPass.timerFired

\* C32: the index of a pass is generated at most once and with no callback of
\* the pass owed, and the promise of the standalone generator is resolved at
\* most once and after the index; when nothing of the pass is left to happen
\* the index has been generated once, and the promise resolved once
C32_IndexOnceAfterEveryCallback ==
    trailPass.pc = "queries" =>
        /\ trailPass.indexRuns <= 1
        /\ trailPass.owedAtIndex = {}
        /\ trailPass.resolved <= trailPass.indexRuns
        /\ PassOver =>
              /\ trailPass.indexRuns = 1
              /\ TrailsIndexFile(TrailResort) \in DOMAIN files
              /\ trailPass.by = "generate-trail-data" => trailPass.resolved = 1

(***************************************************************************)
(* Claims about the aggregated files of a run.                             *)
(***************************************************************************)
\* C33: the summary step of a run none of whose results has terrain leaves
\* data/latest.json as it was
C33_LatestUnchangedWithoutTerrain ==
    [][(/\ pc = "loop"
        /\ runLog'.op = "summary"
        /\ \A i \in 1..Len(scrapedData) : scrapedData[i].terrain = <<>>)
       => latestJson' = latestJson]_vars

(***************************************************************************)
(* The rebuild specification: live saves of terrain and snow, and the       *)
(* import of the snapshot files they wrote.                                 *)
(***************************************************************************)
\* saveSnowData(resortKey, rawData), rawData with a snow report: the cleaned
\* payload is written to the dated file and to latest.json, then to the store
SaveSnowData ==
    /\ \E resortKey \in DbKeys :
          LET clean == cleanSnowData(resortKey, SchedSnowReport)
              resorts1 == getOrCreateResort(dbResorts, resortKey)
          IN  /\ files' = WriteFile(files, SnapshotPath(resortKey, "snow", getTodayDate),
                                    clean)
              /\ snowLatest' = snowLatestAfterSave(snowLatest, resortKey, clean)
              /\ dbResorts' = resorts1
              /\ snow_conditions' = saveSnowConditions(snow_conditions, resorts1[resortKey],
                                                       getTodayDate, snowDataForDb(clean))
              /\ runLog' = [op |-> "saveSnow", resortKey |-> resortKey,
                            date |-> getTodayDate,
                            stored |-> saveSnowConditions({}, resorts1[resortKey],
                                                          getTodayDate,
                                                          snowDataForDb(clean))]
    /\ UNCHANGED <<now, config, RESORTS, asyncVars, latestJson, latestSnowJson,
                   indexJson, terrain_status, pc, resortsToCheck, scrapedData,
                   scrapedCount, skippedCount, seasonCheck, statVars, liftVars>>

NextRebuild == SaveResortData \/ SaveSnowData \/ ImportHistoricalData

SpecRebuild == Init /\ [][NextRebuild]_vars

\* C34: after an import, the store holds for every snapshot file the rows the
\* live save of the content of that file stores: the terrain rows, and the
\* snow_conditions row with the same numeric columns and weather condition
C34_ImportEqualsLiveSave ==
    runLog.op = "import" =>
        \A p \in DOMAIN files :
           /\ p[2] = "terrain" =>
                 saveResortDataToDatabase({}, dbResorts[p[1]], p[3], files[p])
                    \subseteq terrain_status
           /\ p[2] = "snow" =>
                 saveSnowConditions({}, dbResorts[p[1]], p[3], snowDataForDb(files[p]))
                    \subseteq snow_conditions

(***************************************************************************)
(* Claims about the order of the statistics.                               *)
(***************************************************************************)
\* the dates of the groomed rows handed to the generators
GroomedDates == {records[i].date : i \in {j \in 1..Len(records) : IsGroomedRow(records[j])}}

\* C35: for rows of distinct dates the statistics satisfy
\* 0 <= currentStreak <= longestStreak <= daysGroomed <= daysTracked;
\* lastGroomed is null exactly when no row is groomed and is otherwise the
\* greatest date of a groomed row; and currentStreak is positive exactly when
\* lastGroomed is the date of the most recent row
C35_StatisticsAreOrdered ==
    \A built \in Built :
        LET stats == built.stats
        IN  /\ 0 <= stats.currentStreak
            /\ stats.currentStreak <= stats.longestStreak
            /\ stats.longestStreak <= stats.daysGroomed
            /\ stats.daysGroomed <= stats.daysTracked
            /\ stats.daysTracked = Len(records)
            /\ stats.daysGroomed = Cardinality(GroomedDates)
            /\ (stats.lastGroomed = <<>>) <=> (stats.daysGroomed = 0)
            /\ stats.lastGroomed # <<>> =>
                  /\ stats.lastGroomed[1] \in GroomedDates
                  /\ \A d \in GroomedDates : d <= stats.lastGroomed[1]
            /\ (stats.currentStreak > 0) <=>
                  /\ stats.lastGroomed # <<>>
                  /\ \A i \in 1..Len(records) : records[i].date <= stats.lastGroomed[1]

\* statistics of rows in which every inequality is strict
C35_StrictWitness ==
    \E built \in Built :
        /\ 0 < built.stats.currentStreak
        /\ built.stats.currentStreak < built.stats.longestStreak
        /\ built.stats.longestStreak < built.stats.daysGroomed
        /\ built.stats.daysGroomed < built.stats.daysTracked
        /\ built.by = "ski-scraper"

(***************************************************************************)
(* The report page specification (data/resort.js): loadIndex, loadDate,     *)
(* navigateDate and selectDate, with every fetch resolving on its own.      *)
(***************************************************************************)
\* the loadDate calls that may be awaiting a fetch at one time
MaxPending == 2

\* the dates a resort may have terrain files of, and the dates the date picker
\* can hold
PageDates == {20250108, 20250109, 20250110}
PickerDates == PageDates \cup {20250107}

\* Array.prototype.sort() of the dates, oldest first
RECURSIVE sortDates(_)
sortDates(dates) ==
    IF dates = {} THEN <<>>
    ELSE LET oldest == CHOOSE d \in dates : \A e \in dates : d <= e
         IN  <<oldest>> \o sortDates(dates \ {oldest})

\* Array.prototype.indexOf on availableDates: -1 when the date is not there
indexOf(dates, date) ==
    IF \E i \in 1..Len(dates) : dates[i] = date
    THEN (CHOOSE i \in 1..Len(dates) : dates[i] = date) - 1
    ELSE 0 - 1

\* navigateDate(direction): the index after it
navigateIndex(p, direction) ==
    LET newIndex == p.currentDateIndex - direction
    IN  IF newIndex >= 0 /\ newIndex < Len(p.availableDates) THEN newIndex
        ELSE p.currentDateIndex

\* loadDate(date) is called: its first fetch is awaited
startLoad(p, date, first) ==
    [p EXCEPT !.loads = Append(@, [date |-> date, stage |-> "data", first |-> first])]

\* a load ends: loadIndex returns when the load it awaits has ended
endLoad(p, i) ==
    [p EXCEPT !.loads = SubSeq(@, 1, i - 1) \o SubSeq(@, i + 1, Len(@)),
              !.pc = IF p.loads[i].first THEN "ready" ELSE @]

\* renderData(data, date), updateNavigation(date): the report of the date with
\* the baseline that yesterdayData holds, the date display, the buttons
renderAndUpdate(p, date) ==
    [p EXCEPT !.content = [kind |-> "report", date |-> date, baseline |-> p.yesterdayData],
              !.dateDisplay = <<date>>,
              !.prevDisabled = (p.currentDateIndex = Len(p.availableDates) - 1),
              !.nextDisabled = (p.currentDateIndex = 0)]

\* loadIndex: the index is fetched, the dates are sorted most recent first and
\* the most recent one is loaded
LoadIndex ==
    /\ page.pc = "loading"
    /\ \E dates \in {Reverse(sortDates(page.files))} :
          page' = startLoad([page EXCEPT !.pc = "indexed",
                                         !.availableDates = dates,
                                         !.currentDateIndex = 0],
                            dates[1], TRUE)
    /\ UNCHANGED <<now, config, RESORTS, schedVars, dbVars, seasonCheck, statVars,
                   liftVars, dbHandle, trailPass>>

\* navigateDate(-1) and navigateDate(+1)
NavigateDate ==
    /\ page.pc \in {"indexed", "ready"}
    /\ Len(page.loads) < MaxPending
    /\ \E direction \in {0 - 1, 1} :
          \E newIndex \in {navigateIndex(page, direction)} :
             page' = IF newIndex # page.currentDateIndex
                     THEN startLoad([page EXCEPT !.currentDateIndex = newIndex,
                                                 !.event = <<"navigate", direction>>],
                                    page.availableDates[newIndex + 1], FALSE)
                     ELSE [page EXCEPT !.event = <<"navigate", direction>>]
    /\ UNCHANGED <<now, config, RESORTS, schedVars, dbVars, seasonCheck, statVars,
                   liftVars, dbHandle, trailPass>>

\* selectDate(): the date picker holds a date
SelectDate ==
    /\ page.pc \in {"indexed", "ready"}
    /\ Len(page.loads) < MaxPending
    /\ \E selectedDate \in PickerDates :
          \E index \in {indexOf(page.availableDates, selectedDate)} :
             page' = IF index # 0 - 1
                     THEN startLoad([page EXCEPT !.currentDateIndex = index,
                                                 !.event = <<"select", selectedDate>>],
                                    page.availableDates[index + 1], FALSE)
                     ELSE [page EXCEPT !.event = <<"select", selectedDate>>]
    /\ UNCHANGED <<now, config, RESORTS, schedVars, dbVars, seasonCheck, statVars,
                   liftVars, dbHandle, trailPass>>

\* loadDate: the fetch of the file of the date resolves.  Not ok: the error is
\* shown.  Ok: the file of the next older date is fetched if there is one;
\* otherwise yesterdayData is null and the report is rendered
FetchData ==
    /\ \E i \in 1..Len(page.loads), ok \in BOOLEAN :
          /\ page.loads[i].stage = "data"
          /\ LET date == page.loads[i].date
                 dateIdx == indexOf(page.availableDates, date)
             IN  page' =
                    IF ~ok
                    THEN endLoad([page EXCEPT !.content = [kind |-> "error"],
                                              !.failed = TRUE], i)
                    ELSE IF dateIdx < Len(page.availableDates) - 1
                    THEN [page EXCEPT !.loads[i].stage = "yesterday"]
                    ELSE endLoad(renderAndUpdate([page EXCEPT !.yesterdayData = <<>>],
                                                 date), i)
    /\ UNCHANGED <<now, config, RESORTS, schedVars, dbVars, seasonCheck, statVars,
                   liftVars, dbHandle, trailPass>>

\* loadDate: the fetch of the file of the next older date resolves, or fails
\* and leaves yesterdayData null; the report is rendered
FetchYesterday ==
    /\ \E i \in 1..Len(page.loads), ok \in BOOLEAN :
          /\ page.loads[i].stage = "yesterday"
          /\ LET date == page.loads[i].date
                 yesterdayDate ==
                     page.availableDates[indexOf(page.availableDates, date) + 2]
             IN  page' =
                    endLoad(renderAndUpdate(
                               [page EXCEPT
                                   !.yesterdayData = IF ok THEN <<yesterdayDate>> ELSE <<>>,
                                   !.failed = @ \/ ~ok],
                               date), i)
    /\ UNCHANGED <<now, config, RESORTS, schedVars, dbVars, seasonCheck, statVars,
                   liftVars, dbHandle, trailPass>>

\* the page has been opened for a resort with some terrain files; the buttons
\* are as the document has them
InitPage ==
    /\ now = StartInstant
    /\ config = Schedule
    /\ RESORTS = ResortConfig
    /\ IdleSched /\ IdleDb /\ IdleSeason /\ IdleStats /\ IdleLifts
    /\ dbHandle = [pc |-> "idle"]
    /\ trailPass = [pc |-> "idle"]
    /\ \E indexFiles \in SUBSET PageDates \ {{}}, disabled \in BOOLEAN :
          page = [pc |-> "loading", files |-> indexFiles, availableDates |-> <<>>,
                  currentDateIndex |-> 0, yesterdayData |-> <<>>, loads |-> <<>>,
                  content |-> [kind |-> "none"], dateDisplay |-> <<>>,
                  prevDisabled |-> disabled, nextDisabled |-> disabled,
                  failed |-> FALSE, event |-> <<>>]

NextPage == LoadIndex \/ NavigateDate \/ SelectDate \/ FetchData \/ FetchYesterday

SpecPage == InitPage /\ [][NextPage]_vars

(***************************************************************************)
(* Claims about the report page.                                           *)
(***************************************************************************)
\* the index is within the dates, and the dates are in descending order
PageIndexInRange ==
    /\ 0 <= page.currentDateIndex
    /\ page.currentDateIndex < Len(page.availableDates)
    /\ \A i, j \in 1..Len(page.availableDates) :
          i < j => page.availableDates[i] > page.availableDates[j]

\* an event that must change nothing: navigateDate(-1) at the oldest date,
\* navigateDate(+1) at the newest, selectDate of a date that is not available
PageEventWithoutEffect ==
    /\ page.pc \in {"indexed", "ready"}
    /\ page'.event # <<>>
    /\ page'.loads = page.loads \/ Len(page'.loads) > Len(page.loads)
    /\ \/ /\ page'.event = <<"navigate", 0 - 1>>
          /\ page.currentDateIndex = Len(page.availableDates) - 1
       \/ /\ page'.event = <<"navigate", 1>>
          /\ page.currentDateIndex = 0
       \/ /\ page'.event[1] = "select"
          /\ \A i \in 1..Len(page.availableDates) :
                page.availableDates[i] # page'.event[2]

\* the page is at rest: loadIndex has returned and no fetch is pending
PageAtRest == page.pc = "ready" /\ page.loads = <<>>

\* the buttons are disabled exactly at the ends of the dates
PageButtonsAtEnds ==
    /\ page.prevDisabled <=> page.currentDateIndex = Len(page.availableDates) - 1
    /\ page.nextDisabled <=> page.currentDateIndex = 0

\* C36: after loadIndex and every sequence of navigateDate and selectDate
\* events the index is within availableDates, which is sorted most recent
\* first; an event at the end of the dates or for a date that is not available
\* changes nothing; and, with no fetch pending, the previous button is
\* disabled exactly at the oldest date, the next button exactly at the newest
C36_NavigationStaysInRange ==
    /\ [](page.pc \in {"indexed", "ready"} => PageIndexInRange)
    /\ [][PageEventWithoutEffect =>
             /\ page'.currentDateIndex = page.currentDateIndex
             /\ page'.availableDates = page.availableDates
             /\ page'.loads = page.loads
             /\ page'.content = page.content]_vars
    /\ [](PageAtRest => PageButtonsAtEnds)

\* the next older available date of a date, if there is one
NextOlder(date) ==
    LET older == {d \in page.files : d < date}
    IN  IF older = {} THEN <<>>
        ELSE <<CHOOSE d \in older : \A e \in older : e <= d>>

\* C37: when no fetch is pending, and none has failed, the report rendered and
\* the date displayed are those of availableDates[currentDateIndex], and the
\* baseline of the report is the snapshot of the next older available date
C37_RenderedIsCurrent ==
    (PageAtRest /\ ~page.failed) =>
        LET current == page.availableDates[page.currentDateIndex + 1]
        IN  /\ page.content = [kind |-> "report", date |-> current,
                               baseline |-> NextOlder(current)]
            /\ page.dateDisplay = <<current>>

====
